---------------------------- MODULE Spec2Model ----------------------------
(***************************************************************************)
(* A model of the rustycs 2D rigid-body simulator: the World's per-tick    *)
(* pipeline (broad phase, narrow phase, forces, manifold setup, velocity   *)
(* resolution, positional correction, integration) and the pure detection  *)
(* routines it is built from.                                              *)
(*                                                                         *)
(* Numbers.  The program computes in f32.  The model computes in decimal   *)
(* fixed point: the integer n stands for n / SCALE.  Every product and     *)
(* quotient is rounded to the nearest grid value, ties away from zero, so  *)
(* that rounding is sign-symmetric as it is in IEEE arithmetic.  Infinite  *)
(* and NaN values are not modelled: a division by zero stops the check.    *)
(***************************************************************************)
EXTENDS Integers, Sequences, FiniteSets, TLC

\* ------------------------------------------------------------------------
\* Fixed-point arithmetic (the f32 operators the program uses)
\* ------------------------------------------------------------------------

\* One unit (1.0) on the fixed-point grid.
SCALE == 100 * 100

\* Square root of SCALE: the base of the two-stage long division in DivU.
ROOT == 10 * 10

\* TLC passes operator arguments unevaluated; Strict(v) is TRUE and has v
\* evaluated, which keeps the accumulators of the loops below from piling up
Strict(v) == v = v

Abs(x) == IF x < 0 THEN -x ELSE x

Sgn(x) == IF x < 0 THEN -1 ELSE IF x > 0 THEN 1 ELSE 0

\* f32::min and f32::max
FMin(x, y) == IF x < y THEN x ELSE y

FMax(x, y) == IF x > y THEN x ELSE y

\* f32::clamp
FClamp(x, lo, hi) == IF x < lo THEN lo ELSE IF x > hi THEN hi ELSE x

\* a * b / SCALE for a, b >= 0, rounded to nearest; the operands are split
\* in high and low parts so that no intermediate product leaves 32 bits.
MulU(a, b) ==
  LET ah == a \div SCALE
      al == a % SCALE
      bh == b \div SCALE
      bl == b % SCALE
  IN ah * bh * SCALE + ah * bl + al * bh + ((al * bl + (SCALE \div 2)) \div SCALE)

\* f32 multiplication: the product of the magnitudes with the sign of both
Mul(a, b) == Sgn(a) * Sgn(b) * MulU(Abs(a), Abs(b))

\* a * SCALE / b for a >= 0, b > 0, rounded to nearest, by long division in
\* two stages of base ROOT.
DivU(a, b) ==
  LET q0 == a \div b
      r0 == a % b
      q1 == (r0 * ROOT) \div b
      r1 == (r0 * ROOT) % b
      q2 == (r1 * ROOT) \div b
      r2 == (r1 * ROOT) % b
  IN q0 * SCALE + q1 * ROOT + q2 + (IF 2 * r2 >= b THEN 1 ELSE 0)

\* f32 division (b # 0: the quotient by zero, an infinity or a NaN in the
\* program, has no value here and TLC reports it)
Div(a, b) == Sgn(a) * Sgn(b) * DivU(Abs(a), Abs(b))

\* floor(y * y / SCALE) and whether y * y is a multiple of SCALE, without
\* overflow
SqHi(y) ==
  LET yh == y \div SCALE
      yl == y % SCALE
  IN yh * yh * SCALE + 2 * yh * yl + ((yl * yl) \div SCALE)

SqLo(y) == ((y % SCALE) * (y % SCALE)) % SCALE

\* hi + lo / SCALE <= x
SqCmp(hi, lo, x) == hi < x \/ (hi = x /\ lo = 0)

\* y * y <= x * SCALE
SqLe(y, x) == SqCmp(SqHi(y), SqLo(y), x)

RECURSIVE SqrtBS(_, _, _)
SqrtBS(x, lo, hi) ==
  IF hi - lo <= 1 THEN lo
  ELSE LET mid == (lo + hi) \div 2
       IN IF SqLe(mid, x) THEN SqrtBS(x, mid, hi) ELSE SqrtBS(x, lo, mid)

\* f32::sqrt: the largest grid value whose square is at most x
Sqrt(x) ==
  IF x <= 0 THEN 0
  ELSE SqrtBS(x, 0, FMin((IF x < SCALE THEN SCALE ELSE x) + 1, 460 * SCALE))

\* the integer quotient a / n truncated toward zero (n > 0)
Quot(a, n) == IF a < 0 THEN -((-a) \div n) ELSE a \div n

\* pi on the grid
PI == 31416

\* the Taylor series from the term of degree n to that of degree last, each
\* term made from the one before it
RECURSIVE Series(_, _, _, _)
Series(term, x2, n, last) ==
  IF n > last THEN 0
  ELSE term + Series(Quot(-Mul(term, x2), (n + 1) * (n + 2)), x2, n + 2, last)

\* f32::sin and f32::cos for |x| <= pi/2, by their Taylor polynomials
SinT(x) == Series(x, Mul(x, x), 1, 9)

CosT(x) == Series(SCALE, Mul(x, x), 0, 8)

\* the angle reduced to (-pi, pi]
Wrap(x) == ((x + PI - 1) % (2 * PI)) - PI + 1

\* an angle of (-pi, pi] mirrored into [-pi/2, pi/2], the sine kept
Fold(w) ==
  IF w > PI \div 2 THEN PI - w
  ELSE IF w < -(PI \div 2) THEN -PI - w
  ELSE w

\* the sign the cosine takes by that mirroring
Facing(w) == IF w > PI \div 2 \/ w < -(PI \div 2) THEN -1 ELSE 1

Sin(x) == SinT(Fold(Wrap(x)))

CosW(w) == Facing(w) * CosT(Fold(w))

Cos(x) == CosW(Wrap(x))

\* ------------------------------------------------------------------------
\* Vector2 (maths/vector2.rs)
\* ------------------------------------------------------------------------

Vec(x, y) == [x |-> x, y |-> y]

ZERO == Vec(0, 0)

NORMAL_UP == Vec(0, SCALE)

NORMAL_DOWN == Vec(0, -SCALE)

NORMAL_LEFT == Vec(-SCALE, 0)

NORMAL_RIGHT == Vec(SCALE, 0)

\* Option<T>
None == [some |-> FALSE]

Some(v) == [some |-> TRUE, val |-> v]

\* the outcome of an expect()/unwrap() or an index out of range, which aborts
\* the program
Panic == [some |-> FALSE, panic |-> TRUE]

\* whether a result is such an abort
IsPanic(r) == "panic" \in DOMAIN r

VAdd(a, b) == Vec(a.x + b.x, a.y + b.y)

VSub(a, b) == Vec(a.x - b.x, a.y - b.y)

\* Vector2 * f32
VMul(v, f) == Vec(Mul(v.x, f), Mul(v.y, f))

VNeg(v) == Vec(-v.x, -v.y)

\* cross(f32, Vector2)
cross(f, v) == Vec(Mul(-f, v.y), Mul(f, v.x))

dot(a, b) == Mul(a.x, b.x) + Mul(a.y, b.y)

crossed(a, b) == Mul(a.x, b.y) - Mul(a.y, b.x)

tangent(v) == Vec(-v.y, v.x)

abs(v) == Vec(Abs(v.x), Abs(v.y))

len_squared(v) == dot(v, v)

len(v) == Sqrt(dot(v, v))

\* self * (1.0 / self.len()): the reciprocal's f32 rounding (2^-24) is far
\* below the grid, so the scaled vector is one rounded quotient here
Unit(v, l) == Vec(Div(v.x, l), Div(v.y, l))

\* v scaled to length 1 where its length l is not 0
UnitOpt(v, l) == IF l = 0 THEN None ELSE Some(Unit(v, l))

UnitOr(v, l, other) == IF l = 0 THEN other ELSE Unit(v, l)

normalize(v) == UnitOpt(v, len(v))

normalize_or_zero(v) == UnitOr(v, len(v), ZERO)

\* rnd is the unit vector rand_normal() draws
normalize_or_random(v, rnd) == UnitOr(v, len(v), rnd)

vmin(a, b) == Vec(FMin(a.x, b.x), FMin(a.y, b.y))

vmax(a, b) == Vec(FMax(a.x, b.x), FMax(a.y, b.y))

clamp(v, lo, hi) == vmax(vmin(hi, v), lo)

distance_squared(a, b) == len_squared(VSub(a, b))

\* v turned by the angle of cosine c and sine s
Turn(v, c, s) == Vec(Mul(v.x, c) - Mul(v.y, s), Mul(v.x, s) + Mul(v.y, c))

rotated(v, angle) == Turn(v, Cos(angle), Sin(angle))

\* the unit vectors rand_normal() may return (angles 0, pi/2, pi, 3pi/2 and
\* the 3-4-5 direction), a sample of the circle
RandNormals ==
  {NORMAL_RIGHT, NORMAL_UP, NORMAL_LEFT, NORMAL_DOWN,
   Vec((6 * SCALE) \div 10, (8 * SCALE) \div 10)}

\* ------------------------------------------------------------------------
\* Materials (material.rs)
\* ------------------------------------------------------------------------

Material(density, friction, restitution, name) ==
  [density |-> density, friction |-> friction, restitution |-> restitution,
   name |-> name]

DEFAULT == Material(1000, 6000, 5000, "default")

RUBBER == Material(9000, 8000, 6000, "rubber")

STONE == Material(25000, 4000, 2000, "stone")

METAL == Material(78000, 2000, 1000, "metal")

\* ------------------------------------------------------------------------
\* Shapes (shapes.rs, shapes/circle.rs, shapes/aabb.rs, shapes/polygon.rs)
\* ------------------------------------------------------------------------

\* stands for f32::MAX: larger than every finite value of the model
F32_MAX == 2000000000

Hitbox(min, max) == [min |-> min, max |-> max]

\* Circle::new
Circle(r) ==
  [kind |-> "Circle", r |-> r, visual_point |-> Vec(0, r),
   area |-> Mul(Mul(r, r), PI)]

\* AABB::generate_corners: left-top, right-top, right-bottom, left-bottom
generate_corners(width, height) ==
  LET left == Div(-width, 2 * SCALE)
      right == Div(width, 2 * SCALE)
      top == Div(height, 2 * SCALE)
      bottom == Div(-height, 2 * SCALE)
  IN <<Vec(left, top), Vec(right, top), Vec(right, bottom), Vec(left, bottom)>>

\* the AABB of those corners: min the left-bottom, max the right-top one
AabbOf(width, height, corners) ==
  [kind |-> "AABB", min |-> corners[4], max |-> corners[2],
   area |-> Mul(width, height), corners |-> corners]

\* AABB::new
AABB(width, height) == AabbOf(width, height, generate_corners(width, height))

\* Shape::as_aabb / copy_as_aabb: a fresh AABB of twice the half extents
copy_as_aabb(shape) == AABB(Mul(shape.max.x, 2 * SCALE), Mul(shape.max.y, 2 * SCALE))

\* Shape::as_circle / copy_as_circle
copy_as_circle(shape) == Circle(shape.r)

\* the vertex after idx, cyclically (1-based)
Nxt(idx, n) == (idx % n) + 1

RECURSIVE ShoelaceSum(_, _)
ShoelaceSum(verts, i) ==
  IF i > Len(verts) THEN 0
  ELSE LET a == verts[i]
           b == verts[Nxt(i, Len(verts))]
       IN (Mul(a.x, b.y) - Mul(b.x, a.y)) + ShoelaceSum(verts, i + 1)

\* Polygon::area (shoelace)
polygon_area(verts) == Mul(Abs(ShoelaceSum(verts, 1)), SCALE \div 2)

RECURSIVE SumX(_, _)
SumX(verts, i) == IF i > Len(verts) THEN 0 ELSE verts[i].x + SumX(verts, i + 1)

RECURSIVE SumY(_, _)
SumY(verts, i) == IF i > Len(verts) THEN 0 ELSE verts[i].y + SumY(verts, i + 1)

\* the sums of the coordinates, each times 1 / n
Mean(sum_x, sum_y, inv_nr_of_vertices) ==
  Vec(Mul(sum_x, inv_nr_of_vertices), Mul(sum_y, inv_nr_of_vertices))

\* centroid: the mean of the vertices
centroid(verts) ==
  Mean(SumX(verts, 1), SumY(verts, 1), Div(SCALE, Len(verts) * SCALE))

\* the sign of the turn from the edge at idx to the next edge
TurnAt(verts, idx) ==
  Sgn(crossed(VSub(verts[Nxt(idx, Len(verts))], verts[idx]),
              VSub(verts[Nxt(Nxt(idx, Len(verts)), Len(verts))],
                   verts[Nxt(idx, Len(verts))])))

\* whether a turn of that sign keeps the polygon convex, the turns before
\* it having the sign state (0: none yet)
Keeps(state, turn) == ~(state = 1 /\ turn < 0) /\ ~(state = -1 /\ turn > 0)

RECURSIVE ConvexFrom(_, _, _)
ConvexFrom(verts, idx, state) ==
  IF idx > Len(verts) THEN TRUE
  ELSE IF ~Keeps(state, TurnAt(verts, idx)) THEN FALSE
  ELSE ConvexFrom(verts, idx + 1, IF state = 0 THEN TurnAt(verts, idx) ELSE state)

\* Polygon::is_convex: all turns have one sign
is_convex(verts) == ConvexFrom(verts, 1, 0)

\* the polygon of the recentred vertices; None when concave
PolygonOf(verts, moved) ==
  IF is_convex(moved)
  THEN Some([kind |-> "Polygon", area |-> polygon_area(verts), vertices |-> moved])
  ELSE None

\* the vertices moved by shift
Shifted(verts, shift) == [i \in 1..Len(verts) |-> VAdd(verts[i], shift)]

\* the length of the vertex array of a polygon and of a body
MAX_VERTICE_COUNT == 8

\* Polygon::new: the vertices shifted to their centroid. More vertices than
\* the array holds abort in copy_from_slice; of no vertices there is none to
\* shift (the shift itself is NaN) and none for is_convex to reject.
Polygon(verts) ==
  IF Len(verts) > MAX_VERTICE_COUNT THEN Panic
  ELSE IF Len(verts) = 0 THEN PolygonOf(verts, verts)
  ELSE PolygonOf(verts, Shifted(verts, VSub(ZERO, centroid(verts))))

\* Shape::get_vertices
shape_vertices(shape) ==
  IF shape.kind = "Circle" THEN <<shape.visual_point>>
  ELSE IF shape.kind = "AABB" THEN shape.corners
  ELSE shape.vertices

\* ------------------------------------------------------------------------
\* Body (body.rs, transforms.rs)
\* ------------------------------------------------------------------------

\* Transform::new
Transform(x, y) == [location |-> Vec(x, y), velocity |-> ZERO, angular_velocity |-> 0]

\* f32::INFINITY, above every finite value
INFINITY == F32_MAX + 1

\* a quantity and its inverse, 1.0 / 0.0 being the infinity
WithInverse(v) == <<v, IF v = 0 THEN INFINITY ELSE Div(SCALE, v)>>

calc_mass(area, density) == WithInverse(Mul(area, density))

RECURSIVE PolyInertia(_, _, _)
PolyInertia(verts, density, idx) ==
  IF idx > Len(verts) THEN 0
  ELSE LET a == verts[idx]
           b == verts[Nxt(idx, Len(verts))]
           mass_tri == Mul(Mul(density, SCALE \div 2), Abs(crossed(a, b)))
       IN Div(Mul(mass_tri, len_squared(a) + len_squared(b) + dot(a, b)), 6 * SCALE)
          + PolyInertia(verts, density, idx + 1)

\* a variant of calc_inertia that gives a box the inertia of a rectangle,
\* mass * (width^2 + height^2) / 12
calc_inertia_of_rectangles(shape, mass, density) ==
  IF shape.kind = "Circle"
  THEN WithInverse(Mul(Mul(SCALE \div 2, mass), Mul(shape.r, shape.r)))
  ELSE IF shape.kind = "Polygon"
  THEN WithInverse(PolyInertia(shape.vertices, density, 1))
  ELSE WithInverse(Div(Mul(mass, 4 * (Mul(shape.max.x, shape.max.x)
                                      + Mul(shape.max.y, shape.max.y))),
                       12 * SCALE))

calc_inertia(shape, mass, density) ==
  IF shape.kind = "Circle" /\ mass = INFINITY
  THEN <<INFINITY, 0>>
  ELSE IF shape.kind = "Circle"
  THEN WithInverse(Mul(Mul(SCALE \div 2, mass), Mul(shape.r, shape.r)))
  ELSE IF shape.kind = "Polygon"
  THEN WithInverse(PolyInertia(shape.vertices, density, 1))
  ELSE <<0, 0>>

RECURSIVE MinOver(_, _, _)
MinOver(verts, i, axis) ==
  IF i > Len(verts) THEN F32_MAX
  ELSE FMin(IF axis = "x" THEN verts[i].x ELSE verts[i].y, MinOver(verts, i + 1, axis))

RECURSIVE MaxOver(_, _, _)
MaxOver(verts, i, axis) ==
  IF i > Len(verts) THEN -F32_MAX
  ELSE FMax(IF axis = "x" THEN verts[i].x ELSE verts[i].y, MaxOver(verts, i + 1, axis))

\* AABB::get_hitbox
get_hitbox(aabb) == Hitbox(aabb.min, aabb.max)

\* Body::generate_hitbox: the local bounding box of the shape
generate_hitbox(shape, vertices) ==
  IF shape.kind = "Circle"
  THEN Hitbox(Vec(-shape.r, -shape.r), Vec(shape.r, shape.r))
  ELSE IF shape.kind = "AABB"
  THEN get_hitbox(copy_as_aabb(shape))
  ELSE Hitbox(Vec(MinOver(vertices, 1, "x"), MinOver(vertices, 1, "y")),
              Vec(MaxOver(vertices, 1, "x"), MaxOver(vertices, 1, "y")))

\* the body of that mass m and inertia i (each with its inverse)
BodyOf(x, y, shape, body_type, material, name, m, i, vertices) ==
  [name |-> name, shape |-> shape, transform |-> Transform(x, y),
   material |-> material, hitbox |-> generate_hitbox(shape, vertices),
   vertices |-> vertices, vertice_count |-> Len(vertices),
   body_type |-> body_type, mass |-> m[1], inverse_mass |-> m[2],
   inertia |-> i[1], inverse_inertia |-> i[2]]

\* Body::new once the mass is known
BodyOfMass(x, y, shape, body_type, material, name, m) ==
  BodyOf(x, y, shape, body_type, material, name, m,
         IF body_type = "Dynamic" THEN calc_inertia(shape, m[1], material.density)
         ELSE <<0, 0>>,
         shape_vertices(shape))

\* Body::new: a Static body has mass and inertia 0
Body(x, y, shape, body_type, material, name) ==
  BodyOfMass(x, y, shape, body_type, material, name,
             IF body_type = "Dynamic" THEN calc_mass(shape.area, material.density)
             ELSE <<0, 0>>)

\* Body::get_moved_vertices
get_moved_vertices(body) ==
  [i \in 1..body.vertice_count |-> VAdd(body.vertices[i], body.transform.location)]

\* the dynamic constructors
body_circle(x, y, r, material, name) == Body(x, y, Circle(r), "Dynamic", material, name)

body_aabb(x, y, width, height, material, name) ==
  Body(x, y, AABB(width, height), "Dynamic", material, name)

body_obb(x, y, width, height, material, name) ==
  Body(x, y, Polygon(generate_corners(width, height)).val, "Dynamic", material, name)

\* the body with that mass and the inertia of its shape at that mass
WithMass(body, mass, i) ==
  [body EXCEPT !.mass = mass,
               !.inverse_mass = IF mass = INFINITY THEN 0 ELSE Div(SCALE, mass),
               !.inertia = i[1], !.inverse_inertia = i[2]]

\* Body::set_mass
set_mass(body, mass) ==
  WithMass(body, mass, calc_inertia(body.shape, mass, body.material.density))

\* the body of an Option of a shape
BodyOpt(x, y, shape, body_type, material, name) ==
  IF IsPanic(shape) THEN Panic
  ELSE IF shape.some THEN Some(Body(x, y, shape.val, body_type, material, name))
  ELSE None

body_polygon(x, y, vertices, material, name) ==
  BodyOpt(x, y, Polygon(vertices), "Dynamic", material, name)

\* the body with those vertices and the hitbox around them
WithVertices(body, vs) ==
  [body EXCEPT !.vertices = vs, !.hitbox = generate_hitbox(body.shape, vs)]

\* the vertices rotated and the hitbox regenerated, as the platform
\* constructors do after Body::new
Rotated(body, rotation) ==
  WithVertices(body, [i \in 1..body.vertice_count |->
                        rotated(body.vertices[i], rotation)])

RotatedOpt(body, rotation) ==
  IF body.some THEN Some(Rotated(body.val, rotation)) ELSE body

\* the static constructors
platform_rectangle_obb(x, y, width, height, rotation, material, name) ==
  Rotated(Body(x, y, Polygon(generate_corners(width, height)).val, "Static",
               material, name), rotation)

platform_rectangle_aabb(x, y, width, height, material, name) ==
  Body(x, y, AABB(width, height), "Static", material, name)

platform_circle(x, y, r, material, name) == Body(x, y, Circle(r), "Static", material, name)

platform_polygon(x, y, vertices, rotation, material, name) ==
  RotatedOpt(BodyOpt(x, y, Polygon(vertices), "Static", material, name), rotation)

\* ------------------------------------------------------------------------
\* Manifold (collision/manifold.rs)
\* ------------------------------------------------------------------------

\* Contact::default
Contact0 ==
  [location |-> ZERO, diff_to_a |-> ZERO, diff_to_b |-> ZERO,
   normal_magnitude |-> 0, tangent_magnitude |-> 0]

\* a variant of Manifold::new that stores the index of a for both bodies
ManifoldOfOneIndex(a, a_idx, b, b_idx) ==
  LET restitution == Mul(a.material.restitution + b.material.restitution, SCALE \div 2)
  IN [a_idx |-> a_idx, b_idx |-> a_idx, normal |-> ZERO, tangent |-> ZERO,
      depth |-> 0, contact_count |-> 0, inv_contact_count |-> 0,
      contacts |-> <<Contact0, Contact0>>,
      bounce_factor |-> -(SCALE + restitution),
      friction |-> Mul(a.material.friction + b.material.friction, SCALE \div 2)]

\* Manifold::new
Manifold(a, a_idx, b, b_idx) ==
  LET restitution == Mul(a.material.restitution + b.material.restitution, SCALE \div 2)
  IN [a_idx |-> a_idx, b_idx |-> b_idx, normal |-> ZERO, tangent |-> ZERO,
      depth |-> 0, contact_count |-> 0, inv_contact_count |-> 0,
      contacts |-> <<Contact0, Contact0>>,
      bounce_factor |-> -(SCALE + restitution),
      friction |-> Mul(a.material.friction + b.material.friction, SCALE \div 2)]

\* a variant of the filling-in that leaves contact_count as Manifold::new set it
FilledUncounted(m, normal, depth, contact_1, contact_2) ==
  [m EXCEPT !.normal = normal, !.depth = depth,
            !.contacts = <<[Contact0 EXCEPT !.location = contact_1],
                           IF contact_2.some
                           THEN [Contact0 EXCEPT !.location = contact_2.val]
                           ELSE Contact0>>]

\* m with its normal, depth and contact points filled in (contact_2 an Option)
Filled(m, normal, depth, contact_1, contact_2) ==
  [m EXCEPT !.normal = normal, !.depth = depth,
            !.contact_count = IF contact_2.some THEN 2 ELSE 1,
            !.contacts = <<[Contact0 EXCEPT !.location = contact_1],
                           IF contact_2.some
                           THEN [Contact0 EXCEPT !.location = contact_2.val]
                           ELSE Contact0>>]

\* ------------------------------------------------------------------------
\* Detection (collision/detection.rs, collision/hitbox.rs)
\* ------------------------------------------------------------------------

THRESHHOLD == 1

similar(f1, f2) == Abs(f1 - f2) <= THRESHHOLD

similar_vector2(v1, v2) == similar(v1.x, v2.x) /\ similar(v1.y, v2.y)

\* &Hitbox + Vector2
HitboxAdd(hitbox, rhs) == Hitbox(VAdd(hitbox.min, rhs), VAdd(hitbox.max, rhs))

\* a variant of the overlap test that lets boxes sharing an edge overlap
OverlappingOrTouching(hitbox_a, hitbox_b) ==
  IF hitbox_a.min.x > hitbox_b.max.x \/ hitbox_b.min.x > hitbox_a.max.x THEN FALSE
  ELSE IF hitbox_a.min.y > hitbox_b.max.y \/ hitbox_b.min.y > hitbox_a.max.y THEN FALSE
  ELSE TRUE

\* whether two boxes overlap by more than a touch on both axes
Overlapping(hitbox_a, hitbox_b) ==
  IF hitbox_a.min.x >= hitbox_b.max.x \/ hitbox_b.min.x >= hitbox_a.max.x THEN FALSE
  ELSE IF hitbox_a.min.y >= hitbox_b.max.y \/ hitbox_b.min.y >= hitbox_a.max.y THEN FALSE
  ELSE TRUE

hitboxes_collide(a, b) ==
  Overlapping(HitboxAdd(a.hitbox, a.transform.location),
              HitboxAdd(b.hitbox, b.transform.location))

\* the point of the segment from a along line at that factor, clamped to
\* the segment's ends
AlongLine(a, b, line, projection_factor) ==
  IF projection_factor >= SCALE THEN b
  ELSE IF projection_factor <= 0 THEN a
  ELSE VAdd(a, VMul(line, projection_factor))

ProjectionFactor(line, ap) == Div(dot(line, ap), dot(line, line))

project_onto_line(a, b, p) ==
  AlongLine(a, b, VSub(b, a), ProjectionFactor(VSub(b, a), VSub(p, a)))

\* whether the ray from p to the right crosses the edge from a to b; the
\* quotient is read only where b.y # a.y
Crosses(p, a, b) ==
  /\ (p.y < a.y) # (p.y < b.y)
  /\ p.x < a.x + Mul(Div(p.y - a.y, b.y - a.y), b.x - a.x)

RECURSIVE CrossingsFrom(_, _, _)
CrossingsFrom(p, verts, idx) ==
  IF idx > Len(verts) THEN 0
  ELSE (IF Crosses(p, verts[idx], verts[Nxt(idx, Len(verts))]) THEN 1 ELSE 0)
       + CrossingsFrom(p, verts, idx + 1)

\* ray casting: an even number of crossings is outside
is_outside_polygon(p, polygon) ==
  CrossingsFrom(p, get_moved_vertices(polygon), 1) % 2 = 0

\* <<min, max>> widened to hold projected
Widen(mm, projected) ==
  <<IF projected < mm[1] THEN projected ELSE mm[1],
    IF projected > mm[2] THEN projected ELSE mm[2]>>

\* the projections of the vertices on the axis: <<min, max>>
RECURSIVE ProjFrom(_, _, _, _)
ProjFrom(verts, axis, i, mm) ==
  IF Strict(mm) /\ i > Len(verts) THEN mm
  ELSE ProjFrom(verts, axis, i + 1, Widen(mm, dot(verts[i], axis)))

sat_projection(body, axis) ==
  ProjFrom(get_moved_vertices(body), axis, 1, <<F32_MAX, -F32_MAX>>)

\* <<min_d2, contact>> after the candidate at squared distance d2
Nearer(best, contact_candidate, d2) ==
  IF d2 < best[1] THEN <<d2, contact_candidate>> ELSE best

NearerTo(best, p, contact_candidate) ==
  Nearer(best, contact_candidate, distance_squared(p, contact_candidate))

\* the closest boundary point of body to p
RECURSIVE SingleFrom(_, _, _, _)
SingleFrom(p, verts, idx, best) ==
  IF Strict(best) /\ idx > Len(verts) THEN best[2]
  ELSE SingleFrom(p, verts, idx + 1,
         NearerTo(best, p,
                  project_onto_line(verts[idx], verts[Nxt(idx, Len(verts))], p)))

contacts_single(p, body) ==
  SingleFrom(p, get_moved_vertices(body), 1, <<F32_MAX, ZERO>>)

\* one step of the contact search of contacts_double: st is
\* [min_d2, contact_1, contact_2]
ContactStep(st, contact_candidate, d2) ==
  IF similar(d2, st.min_d2)
  THEN IF st.contact_1.some /\ ~similar_vector2(st.contact_1.val, contact_candidate)
       THEN [st EXCEPT !.contact_2 = Some(contact_candidate)]
       ELSE st
  ELSE IF d2 < st.min_d2
  THEN [st EXCEPT !.min_d2 = d2, !.contact_1 = Some(contact_candidate)]
  ELSE st

ContactStepTo(st, p, contact_candidate) ==
  ContactStep(st, contact_candidate, distance_squared(p, contact_candidate))

\* the vertices ps[i..] against the edges es[j..] of the other body, in the
\* order of the nested loops
RECURSIVE ContactPass(_, _, _, _, _)
ContactPass(ps, es, i, j, st) ==
  IF Strict(st) /\ i > Len(ps) THEN st
  ELSE IF j > Len(es) THEN ContactPass(ps, es, i + 1, 1, st)
  ELSE ContactPass(ps, es, i, j + 1,
         ContactStepTo(st, ps[i],
                       project_onto_line(es[j], es[Nxt(j, Len(es))], ps[i])))

\* the contacts found: <<contact_1, contact_2>>
Found(st) == <<st.contact_1, st.contact_2>>

\* the vertices of a against the edges of b, then those of b against a
BothPasses(vertices_a, vertices_b) ==
  ContactPass(vertices_b, vertices_a, 1, 1,
    ContactPass(vertices_a, vertices_b, 1, 1,
                [min_d2 |-> F32_MAX, contact_1 |-> None, contact_2 |-> None]))

\* <<contact_1, contact_2>>, both Options: contact_1 is None where the
\* program's expect("collision detected when there is none") aborts
contacts_double(a, b) ==
  Found(BothPasses(get_moved_vertices(a), get_moved_vertices(b)))

\* a manifold of one contact
OneContact(m, normal, depth, contact) == Some(Filled(m, normal, depth, contact, None))

\* circle_circle past its early return: the contact on a's surface
CirclesTouch(a, a_idx, b, b_idx, ra, r, direction, normal) ==
  OneContact(Manifold(a, a_idx, b, b_idx), normal, r - len(direction),
             VAdd(a.transform.location, VMul(normal, ra)))

\* a variant of circle_circle whose early return lets touching circles through
CirclesAtOrTouching(a, a_idx, b, b_idx, ra, r, direction, rnd) ==
  IF len_squared(direction) > Mul(r, r) THEN None
  ELSE CirclesTouch(a, a_idx, b, b_idx, ra, r, direction,
                    normalize_or_random(direction, rnd))

CirclesAt(a, a_idx, b, b_idx, ra, r, direction, rnd) ==
  IF len_squared(direction) >= Mul(r, r) THEN None
  ELSE CirclesTouch(a, a_idx, b, b_idx, ra, r, direction,
                    normalize_or_random(direction, rnd))

circle_circle(a, a_idx, b, b_idx, rnd) ==
  CirclesAt(a, a_idx, b, b_idx, copy_as_circle(a.shape).r,
            copy_as_circle(a.shape).r + copy_as_circle(b.shape).r,
            VSub(b.transform.location, a.transform.location), rnd)

\* circle_aabb, the centre outside the box: the nearest point decides
CircleOutside(m, circle, r, distance, normal) ==
  IF ~normal.some THEN Panic
  ELSE OneContact(m, normal.val, r - distance,
                  VAdd(circle.transform.location, VMul(normal.val, distance)))

\* circle_aabb, the centre inside the box, along the axis of least overlap
CircleAlong(m, circle, r, normal, overlap) ==
  OneContact(m, normal, r + overlap,
             VAdd(circle.transform.location, VMul(normal, overlap)))

CircleInside(m, circle, r, distance, x_overlap, y_overlap) ==
  IF x_overlap < y_overlap
  THEN CircleAlong(m, circle, r,
                   IF distance.x > 0 THEN NORMAL_LEFT ELSE NORMAL_RIGHT, x_overlap)
  ELSE CircleAlong(m, circle, r,
                   IF distance.y > 0 THEN NORMAL_DOWN ELSE NORMAL_UP, y_overlap)

CircleBox(circle, circle_idx, aabb, aabb_idx, r, difference_to_clamped, location_to_clamped_squared, distance) ==
  IF Mul(r, r) <= location_to_clamped_squared THEN None
  ELSE IF location_to_clamped_squared # 0
  THEN CircleOutside(Manifold(circle, circle_idx, aabb, aabb_idx), circle, r,
                     Sqrt(location_to_clamped_squared),
                     normalize(difference_to_clamped))
  ELSE CircleInside(Manifold(circle, circle_idx, aabb, aabb_idx), circle, r, distance,
                    aabb.hitbox.max.x - Abs(distance.x),
                    aabb.hitbox.max.y - Abs(distance.y))

CircleClamped(circle, circle_idx, aabb, aabb_idx, difference_to_clamped) ==
  CircleBox(circle, circle_idx, aabb, aabb_idx, copy_as_circle(circle.shape).r,
            difference_to_clamped, len_squared(difference_to_clamped),
            VSub(circle.transform.location, aabb.transform.location))

circle_aabb(circle, circle_idx, aabb, aabb_idx) ==
  CircleClamped(circle, circle_idx, aabb, aabb_idx,
    VSub(clamp(circle.transform.location,
               VAdd(aabb.hitbox.min, aabb.transform.location),
               VAdd(aabb.hitbox.max, aabb.transform.location)),
         circle.transform.location))

\* direction.normalize().unwrap_or(fallback)
UnwrapOr(opt, fallback) == IF opt.some THEN opt.val ELSE fallback

CirclePoly(m, circle, polygon, r, contact_candidate, distance_squared_, normal) ==
  IF is_outside_polygon(circle.transform.location, polygon)
  THEN IF distance_squared_ > Mul(r, r) THEN None
       ELSE OneContact(m, normal, r - Sqrt(distance_squared_), contact_candidate)
  ELSE OneContact(m, VNeg(normal), r + Sqrt(distance_squared_), contact_candidate)

CircleToward(circle, circle_idx, polygon, polygon_idx, rnd, contact_candidate, direction) ==
  CirclePoly(Manifold(circle, circle_idx, polygon, polygon_idx), circle, polygon,
             copy_as_circle(circle.shape).r, contact_candidate, len_squared(direction),
             UnwrapOr(normalize(direction),
                      normalize_or_random(
                        VSub(polygon.transform.location, circle.transform.location),
                        rnd)))

CircleNear(circle, circle_idx, polygon, polygon_idx, rnd, contact_candidate) ==
  CircleToward(circle, circle_idx, polygon, polygon_idx, rnd, contact_candidate,
               VSub(contact_candidate, circle.transform.location))

circle_polygon(circle, circle_idx, polygon, polygon_idx, rnd) ==
  CircleNear(circle, circle_idx, polygon, polygon_idx, rnd,
             contacts_single(circle.transform.location, polygon))

\* the manifold of those contacts, the program aborting where there is none
TwoContacts(m, normal, depth, contacts) ==
  IF ~contacts[1].some THEN Panic
  ELSE Some(Filled(m, normal, depth, contacts[1].val, contacts[2]))

\* aabb_aabb: the axis of least overlap gives the normal and the depth
BoxesAlong(a, a_idx, b, b_idx, direction, x_overlap, y_overlap) ==
  TwoContacts(Manifold(a, a_idx, b, b_idx),
              IF y_overlap < x_overlap
              THEN (IF direction.y > 0 THEN NORMAL_UP ELSE NORMAL_DOWN)
              ELSE (IF direction.x > 0 THEN NORMAL_RIGHT ELSE NORMAL_LEFT),
              IF y_overlap < x_overlap THEN y_overlap ELSE x_overlap,
              contacts_double(a, b))

BoxesAt(a, a_idx, b, b_idx, direction, aabb_1, aabb_2) ==
  BoxesAlong(a, a_idx, b, b_idx, direction,
             aabb_1.max.x + aabb_2.max.x - Abs(direction.x),
             aabb_1.max.y + aabb_2.max.y - Abs(direction.y))

aabb_aabb(a, a_idx, b, b_idx) ==
  BoxesAt(a, a_idx, b, b_idx, VSub(b.transform.location, a.transform.location),
          copy_as_aabb(a.shape), copy_as_aabb(b.shape))

\* one axis of the separating-axis scan; sat is [status, depth, normal],
\* status "ok" while no axis separates
SatStep(sat, axis, pa, pb, d) ==
  IF pa[1] >= pb[2] \/ pb[1] >= pa[2] THEN [sat EXCEPT !.status = "none"]
  ELSE IF d < sat.depth THEN [sat EXCEPT !.depth = d, !.normal = axis]
  ELSE sat

SatOverlap(sat, axis, pa, pb) ==
  SatStep(sat, axis, pa, pb, FMin(pb[2] - pa[1], pa[2] - pb[1]))

SatAxis(a, b, sat, axis) ==
  IF ~axis.some THEN [sat EXCEPT !.status = "panic"]
  ELSE SatOverlap(sat, axis.val, sat_projection(a, axis.val),
                  sat_projection(b, axis.val))

\* the scan over the edges verts[idx..] of one body
RECURSIVE SatFrom(_, _, _, _, _)
SatFrom(a, b, verts, idx, sat) ==
  IF Strict(sat) /\ (idx > Len(verts) \/ sat.status # "ok") THEN sat
  ELSE SatFrom(a, b, verts, idx + 1,
         SatAxis(a, b, sat,
                 normalize(tangent(VSub(verts[Nxt(idx, Len(verts))], verts[idx])))))

\* the normal turned to point from a to b
Toward(direction, normal) == IF dot(direction, normal) < 0 THEN VNeg(normal) ELSE normal

PolysAt(a, a_idx, b, b_idx, sat) ==
  IF sat.status = "panic" THEN Panic
  ELSE IF sat.status = "none" THEN None
  ELSE TwoContacts(Manifold(a, a_idx, b, b_idx),
                   Toward(VSub(b.transform.location, a.transform.location), sat.normal),
                   sat.depth, contacts_double(a, b))

polygon_polygon(a, a_idx, b, b_idx) ==
  PolysAt(a, a_idx, b, b_idx,
    SatFrom(a, b, get_moved_vertices(b), 1,
      SatFrom(a, b, get_moved_vertices(a), 1,
              [status |-> "ok", depth |-> F32_MAX, normal |-> ZERO])))

aabb_polygon(aabb, aabb_idx, polygon, polygon_idx) ==
  polygon_polygon(aabb, aabb_idx, polygon, polygon_idx)

\* whether the match of detect_collision hands its bodies on in swapped
\* order: (AABB, Circle), (Polygon, Circle), (Polygon, AABB)
Swapped(a, b) ==
  \/ a.shape.kind = "AABB" /\ b.shape.kind = "Circle"
  \/ a.shape.kind = "Polygon" /\ b.shape.kind \in {"Circle", "AABB"}

\* the routine for the pair of shape kinds, p the body handed on first
Dispatch(p, p_idx, q, q_idx, rnd) ==
  IF p.shape.kind = "Circle"
  THEN IF q.shape.kind = "Circle" THEN circle_circle(p, p_idx, q, q_idx, rnd)
       ELSE IF q.shape.kind = "AABB" THEN circle_aabb(p, p_idx, q, q_idx)
       ELSE circle_polygon(p, p_idx, q, q_idx, rnd)
  ELSE IF p.shape.kind = "AABB"
  THEN IF q.shape.kind = "AABB" THEN aabb_aabb(p, p_idx, q, q_idx)
       ELSE aabb_polygon(p, p_idx, q, q_idx)
  ELSE polygon_polygon(p, p_idx, q, q_idx)

\* the dispatch on the ordered pair of shape kinds
detect_collision(a, a_idx, b, b_idx, rnd) ==
  Dispatch(IF Swapped(a, b) THEN b ELSE a, IF Swapped(a, b) THEN b_idx ELSE a_idx,
           IF Swapped(a, b) THEN a ELSE b, IF Swapped(a, b) THEN a_idx ELSE b_idx, rnd)

\* ------------------------------------------------------------------------
\* Manifold setup and resolution (collision/manifold.rs, collision/resolution.rs)
\* ------------------------------------------------------------------------

BOUNCE_THRESHHOLD == 1

CORRECTION_FACTOR == 6000

ALLOWED_INTERSECTION == 50

\* the relative velocity of the contact point on b against that on a
RelativeVelocity(a, b, ac, bc) ==
  VSub(VAdd(b.transform.velocity, cross(b.transform.angular_velocity, bc)),
       VAdd(a.transform.velocity, cross(a.transform.angular_velocity, ac)))

\* the squared distance of the offset from the line through the body's
\* centre along axis
Lever(offset, along) == dot(offset, offset) - Mul(along, along)

\* 1 / (the inverse masses plus the levers times the inverse inertias)
Magnitude(a, b, ac, bc, axis) ==
  Div(SCALE,
      a.inverse_mass + b.inverse_mass
      + Mul(Lever(ac, dot(ac, axis)), a.inverse_inertia)
      + Mul(Lever(bc, dot(bc, axis)), b.inverse_inertia))

\* one contact of Manifold::setup, its offsets ac and bc from the bodies
SetupAt(contact, normal, tang, a, b, ac, bc) ==
  [location |-> contact.location, diff_to_a |-> ac, diff_to_b |-> bc,
   normal_magnitude |-> Magnitude(a, b, ac, bc, normal),
   tangent_magnitude |-> Magnitude(a, b, ac, bc, tang)]

SetupContact(contact, normal, tang, a, b) ==
  SetupAt(contact, normal, tang, a, b,
          VSub(contact.location, a.transform.location),
          VSub(contact.location, b.transform.location))

\* whether the contact moves no faster than the world force alone explains
Resting(contact, a, b, scaled_world_force) ==
  len_squared(RelativeVelocity(a, b, contact.diff_to_a, contact.diff_to_b))
    < len_squared(scaled_world_force) + BOUNCE_THRESHHOLD

\* the manifold with its contacts set up; no bounce where one of them rests
SetupWith(m, a, b, scaled_world_force, tang, cs) ==
  [m EXCEPT !.tangent = tang,
            !.inv_contact_count = Div(SCALE, m.contact_count * SCALE),
            !.contacts = cs,
            !.bounce_factor =
               IF \E i \in 1..m.contact_count : Resting(cs[i], a, b, scaled_world_force)
               THEN -SCALE ELSE m.bounce_factor]

SetupAlong(m, a, b, scaled_world_force, tang) ==
  SetupWith(m, a, b, scaled_world_force, tang,
            [i \in 1..2 |->
               IF i <= m.contact_count
               THEN SetupContact(m.contacts[i], m.normal, tang, a, b)
               ELSE m.contacts[i]])

\* Manifold::setup
setup(m, a, b, scaled_world_force) ==
  SetupAlong(m, a, b, scaled_world_force, tangent(m.normal))

\* a variant of apply_impulses that leaves the velocity of a alone
apply_impulses_to_b(a, b, impulse, ac, bc) ==
  <<[a EXCEPT !.transform.angular_velocity =
                 @ - Mul(crossed(ac, impulse), a.inverse_inertia)],
    [b EXCEPT !.transform.velocity = VAdd(@, VMul(impulse, b.inverse_mass)),
              !.transform.angular_velocity =
                 @ + Mul(crossed(bc, impulse), b.inverse_inertia)]>>

\* apply_impulses: <<a, b>> after the impulse, -impulse on a and +impulse on b
apply_impulses(a, b, impulse, ac, bc) ==
  <<[a EXCEPT !.transform.velocity = VSub(@, VMul(impulse, a.inverse_mass)),
              !.transform.angular_velocity =
                 @ - Mul(crossed(ac, impulse), a.inverse_inertia)],
    [b EXCEPT !.transform.velocity = VAdd(@, VMul(impulse, b.inverse_mass)),
              !.transform.angular_velocity =
                 @ + Mul(crossed(bc, impulse), b.inverse_inertia)]>>

\* a variant of the normal impulse without the clamp at 0
NormalImpulseUnclamped(m, c, a, b) ==
  Mul(Mul(Mul(c.normal_magnitude,
              dot(RelativeVelocity(a, b, c.diff_to_a, c.diff_to_b), m.normal)),
          m.bounce_factor),
      m.inv_contact_count)

\* the normal impulse of one contact, never negative
NormalImpulse(m, c, a, b) ==
  LET v_rel_n == dot(RelativeVelocity(a, b, c.diff_to_a, c.diff_to_b), m.normal)
      jn == Mul(Mul(Mul(c.normal_magnitude, v_rel_n), m.bounce_factor),
                m.inv_contact_count)
  IN FMax(jn, 0)

\* a variant of the friction impulse without the clamp to the cone
FrictionImpulseUnclamped(m, c, a, b, jn) ==
  Mul(Mul(c.tangent_magnitude,
          -dot(RelativeVelocity(a, b, c.diff_to_a, c.diff_to_b), m.tangent)),
      m.inv_contact_count)

\* the friction impulse of one contact, within the cone of the normal impulse
FrictionImpulse(m, c, a, b, jn) ==
  LET v_rel_t == dot(RelativeVelocity(a, b, c.diff_to_a, c.diff_to_b), m.tangent)
      max_friction == Mul(jn, m.friction)
      jt == Mul(Mul(c.tangent_magnitude, -v_rel_t), m.inv_contact_count)
  IN FClamp(jt, -max_friction, max_friction)

\* the friction impulse applied to the bodies ab
FrictionOn(m, c, ab, jn) ==
  apply_impulses(ab[1], ab[2], VMul(m.tangent, FrictionImpulse(m, c, ab[1], ab[2], jn)),
                 c.diff_to_a, c.diff_to_b)

\* the normal impulse jn applied to the bodies ab, then the friction impulse
ImpulsesOn(m, c, ab, jn) ==
  FrictionOn(m, c,
             apply_impulses(ab[1], ab[2], VMul(m.normal, jn), c.diff_to_a, c.diff_to_b),
             jn)

\* one contact of resolve: the normal impulse, then the friction impulse
ResolveContact(m, c, ab) == ImpulsesOn(m, c, ab, NormalImpulse(m, c, ab[1], ab[2]))

\* the contacts from i on, in order
RECURSIVE ResolveFrom(_, _, _)
ResolveFrom(m, i, ab) ==
  IF Strict(ab) /\ i > m.contact_count THEN ab
  ELSE ResolveFrom(m, i + 1, ResolveContact(m, m.contacts[i], ab))

\* resolve: <<a, b>> afterwards
resolve(m, a, b) == ResolveFrom(m, 1, <<a, b>>)

\* bodies is 1-based here, the body indices are the program's (from 0)
BodyAt(bodies, idx) == bodies[idx + 1]

\* collision_bodies finds both bodies, or aborts ("Body was removed, but
\* still detected in the collision pipeline!")
collision_bodies_ok(a_idx, b_idx, bodies) ==
  a_idx # b_idx /\ a_idx < Len(bodies) /\ b_idx < Len(bodies)

\* the bodies with those at a_idx and b_idx replaced
WithPair(bodies, a_idx, b_idx, ab) ==
  [bodies EXCEPT ![a_idx + 1] = ab[1], ![b_idx + 1] = ab[2]]

\* resolve_collision
resolve_collision(m, bodies) ==
  WithPair(bodies, m.a_idx, m.b_idx,
           resolve(m, BodyAt(bodies, m.a_idx), BodyAt(bodies, m.b_idx)))

\* the bodies a and b pushed apart by correction times their inverse masses
Corrected(bodies, m, a, b, correction) ==
  WithPair(bodies, m.a_idx, m.b_idx,
    <<[a EXCEPT !.transform.location = VSub(@, VMul(correction, a.inverse_mass))],
      [b EXCEPT !.transform.location = VAdd(@, VMul(correction, b.inverse_mass))]>>)

Correction(m, a, b) ==
  VMul(m.normal,
       Mul(Div(FMax(m.depth - ALLOWED_INTERSECTION, 0), a.inverse_mass + b.inverse_mass),
           CORRECTION_FACTOR))

CorrectPair(bodies, m, a, b) == Corrected(bodies, m, a, b, Correction(m, a, b))

\* correct_position
correct_position(m, bodies) ==
  CorrectPair(bodies, m, BodyAt(bodies, m.a_idx), BodyAt(bodies, m.b_idx))

\* ------------------------------------------------------------------------
\* Forces and attractors (environment/force.rs, attractor.rs)
\* ------------------------------------------------------------------------

GRAVITY_EARTH == Vec(0, -98100)

G == SCALE

\* Attractor::new(..).mass(mass).clamp_distance(d_min, d_max)
Attractor(x, y, r, a_type, mass, d_min, d_max) ==
  [location |-> Vec(x, y), mass |-> mass, r |-> r, d_min |-> d_min,
   d_max |-> d_max, a_type |-> a_type]

\* the attraction along dir, d2 its squared length
AttractionAt(attractor, body, dir, d2) ==
  IF attractor.a_type = "Local" /\ d2 > Mul(attractor.r, attractor.r) THEN ZERO
  ELSE VMul(normalize_or_zero(dir),
            Abs(Div(Mul(Mul(G, attractor.mass), body.mass),
                    FClamp(d2, attractor.d_min, attractor.d_max))))

AttractionAlong(attractor, body, dir) ==
  AttractionAt(attractor, body, dir, len_squared(dir))

get_attraction(attractor, body) ==
  AttractionAlong(attractor, body, VSub(attractor.location, body.transform.location))

RECURSIVE AttractionFrom(_, _, _)
AttractionFrom(attractors, body, i) ==
  IF i > Len(attractors) THEN ZERO
  ELSE VAdd(get_attraction(attractors[i], body), AttractionFrom(attractors, body, i + 1))

\* Body::update_hitbox: circles and boxes keep their hitbox
update_hitbox(body) ==
  IF body.shape.kind \in {"Circle", "AABB"} THEN body
  ELSE [body EXCEPT !.hitbox = generate_hitbox(body.shape, body.vertices)]

\* Body::rotate: the vertex cache turned by angular_velocity * dt
rotate(body, dt) ==
  update_hitbox(
    IF body.shape.kind # "AABB" /\ body.transform.angular_velocity # 0
    THEN [body EXCEPT !.vertices =
            [i \in 1..body.vertice_count |->
               rotated(body.vertices[i], Mul(body.transform.angular_velocity, dt))]]
    ELSE body)

\* ------------------------------------------------------------------------
\* World (environment/world.rs)
\* ------------------------------------------------------------------------

\* the empty manifold map
NoManifolds == [k \in {} |-> Contact0]

\* broad_phase: the candidates pushed for a_idx, from b_idx on
\* a variant of the broad phase without the skip of two Static bodies
CandidateOfAnyType(a, b) == hitboxes_collide(a, b)

\* whether broad_phase pushes the pair of a and b
Candidate(a, b) ==
  ~(a.body_type = "Static" /\ b.body_type = "Static") /\ hitboxes_collide(a, b)

RECURSIVE BroadFrom(_, _, _)
BroadFrom(bodies, a_idx, b_idx) ==
  IF a_idx >= Len(bodies) THEN <<>>
  ELSE IF b_idx >= Len(bodies) THEN BroadFrom(bodies, a_idx + 1, a_idx + 2)
  ELSE (IF Candidate(BodyAt(bodies, a_idx), BodyAt(bodies, b_idx))
        THEN <<(<<a_idx, b_idx>>)>> ELSE <<>>)
       \o BroadFrom(bodies, a_idx, b_idx + 1)

\* broad_phase: possible_collisions afterwards
broad_phase(bodies, possible_collisions) ==
  possible_collisions \o BroadFrom(bodies, 0, 1)

\* the contact locations of a manifold, as pushed to collision_points
ContactLocations(m) == [i \in 1..m.contact_count |-> m.contacts[i].location]

\* narrow_phase: the manifold map and collision_points after the candidates
\* from i on; panic when a detection aborts
\* a variant of the insertion that drops a pair the map already holds
NarrowedDroppingKnown(acc, a_idx, b_idx, r) ==
  IF IsPanic(r) THEN [acc EXCEPT !.panic = TRUE]
  ELSE IF r.some /\ <<a_idx, b_idx>> \in DOMAIN acc.manifolds
  THEN [acc EXCEPT !.manifolds = [k \in DOMAIN @ \ {<<a_idx, b_idx>>} |-> @[k]]]
  ELSE IF r.some
  THEN [acc EXCEPT !.manifolds = (<<a_idx, b_idx>> :> r.val) @@ @,
                   !.collision_points = @ \o ContactLocations(r.val)]
  ELSE acc

\* acc after the detection result r of the candidate (a_idx, b_idx)
Narrowed(acc, a_idx, b_idx, r) ==
  IF IsPanic(r) THEN [acc EXCEPT !.panic = TRUE]
  ELSE IF r.some
  THEN [acc EXCEPT !.manifolds = (<<a_idx, b_idx>> :> r.val) @@ @,
                   !.collision_points = @ \o ContactLocations(r.val)]
  ELSE acc

RECURSIVE NarrowFrom(_, _, _, _, _)
NarrowFrom(bodies, cands, i, rnd, acc) ==
  IF Strict(acc) /\ (i > Len(cands) \/ acc.panic) THEN acc
  ELSE NarrowFrom(bodies, cands, i + 1, rnd,
         Narrowed(acc, cands[i][1], cands[i][2],
                  detect_collision(BodyAt(bodies, cands[i][1]), cands[i][1],
                                   BodyAt(bodies, cands[i][2]), cands[i][2], rnd)))

narrow_phase(bodies, possible_collisions, manifolds, collision_points, rnd) ==
  NarrowFrom(bodies, possible_collisions, 1, rnd,
             [manifolds |-> manifolds, collision_points |-> collision_points,
              panic |-> FALSE])

\* the least of the keys, by a_idx and then b_idx
Least(keys) ==
  CHOOSE k \in keys :
    \A o \in keys : k[1] < o[1] \/ (k[1] = o[1] /\ k[2] <= o[2])

RECURSIVE Ascending(_)
Ascending(keys) ==
  IF keys = {} THEN <<>> ELSE <<Least(keys)>> \o Ascending(keys \ {Least(keys)})

Reverse(seq) == [i \in 1..Len(seq) |-> seq[Len(seq) + 1 - i]]

\* the orders in which a HashMap with these keys may hand out its values:
\* any order in the program; ascending and descending here, which are all
\* orders of up to two manifolds and a sample of those of more
Orders(keys) == {Ascending(keys), Reverse(Ascending(keys))}

\* setup_resolutions
setup_resolutions(manifolds, bodies, forces, delta_time) ==
  [k \in DOMAIN manifolds |->
     setup(manifolds[k], BodyAt(bodies, manifolds[k].a_idx),
           BodyAt(bodies, manifolds[k].b_idx), VMul(forces, delta_time))]

\* resolve_collisions: the bodies after one pass over the manifolds in order
RECURSIVE resolve_collisions(_, _, _, _)
resolve_collisions(manifolds, order, i, bodies) ==
  IF Strict(bodies) /\ i > Len(order) THEN bodies
  ELSE resolve_collisions(manifolds, order, i + 1,
                          resolve_collision(manifolds[order[i]], bodies))

\* correct_positions: the bodies after the correction of every manifold in order
RECURSIVE correct_positions(_, _, _, _)
correct_positions(manifolds, order, i, bodies) ==
  IF Strict(bodies) /\ i > Len(order) THEN bodies
  ELSE correct_positions(manifolds, order, i + 1,
                         correct_position(manifolds[order[i]], bodies))

\* update, forces: every Dynamic body accelerated by the forces and attractors
ApplyForces(bodies, forces, attractors, delta_time) ==
  [i \in 1..Len(bodies) |->
     IF bodies[i].body_type = "Dynamic"
     THEN [bodies[i] EXCEPT !.transform.velocity =
             VAdd(@, VMul(VAdd(forces, AttractionFrom(attractors, bodies[i], 1)),
                          delta_time))]
     ELSE bodies[i]]

\* update, integration: every Dynamic body moved and turned
Integrate(bodies, delta_time) ==
  [i \in 1..Len(bodies) |->
     IF bodies[i].body_type = "Dynamic"
     THEN rotate([bodies[i] EXCEPT !.transform.location =
                    VAdd(@, VMul(bodies[i].transform.velocity, delta_time))],
                 delta_time)
     ELSE bodies[i]]

\* a variant of the removal that fills the gap with the last element
\* (Vec::swap_remove)
RemoveAtSwapping(seq, idx) ==
  [i \in 1..(Len(seq) - 1) |-> IF i = idx + 1 THEN seq[Len(seq)] ELSE seq[i]]

\* Vec::remove
RemoveAt(seq, idx) ==
  [i \in 1..(Len(seq) - 1) |-> IF i <= idx THEN seq[i] ELSE seq[i + 1]]

\* ------------------------------------------------------------------------
\* The world as a state machine
\* ------------------------------------------------------------------------

VARIABLES
  bodies,               \* World.bodies
  forces,               \* World.forces
  attractors,           \* World.attractors
  manifolds,            \* World.manifolds, (a_idx, b_idx) -> Manifold
  possible_collisions,  \* World.possible_collisions
  collision_points,     \* World.collision_points
  tick_rate,            \* World.tick_rate
  delta_time,           \* World.delta_time
  collision_precision,  \* World.collision_precision
  pc,                   \* where update() stands; "idle" between calls
  pass,                 \* the velocity passes update() has run in this call
  order,                \* the order in which the manifold map hands out its values
  trace,                \* history: the phases of the current or last update()
  stats,                \* history: per manifold, how often each step ran on it
  ticks,                \* history: the update() calls begun
  ops,                  \* history: the mutator calls made
  probe                 \* the result of a detection function applied on its own

world == <<bodies, forces, attractors, manifolds, possible_collisions,
           collision_points, tick_rate, delta_time, collision_precision>>

vars == <<bodies, forces, attractors, manifolds, possible_collisions,
          collision_points, tick_rate, delta_time, collision_precision,
          pc, pass, order, trace, stats, ticks, ops, probe>>

MaxTicks == 2

MaxOps == 2

MaxBodies == 3

\* the bodies the scenes are made of
Ground == platform_rectangle_aabb(0, -SCALE, 10 * SCALE, 2 * SCALE, STONE, "ground")

Ball == body_circle(0, 9000, SCALE, RUBBER, "ball")

Ball2 == body_circle(15000, 12000, SCALE, DEFAULT, "ball2")

\* a box, set spinning through its public transform
Crate ==
  [body_aabb(0, 0, 2 * SCALE, 2 * SCALE, DEFAULT, "crate")
     EXCEPT !.transform.angular_velocity = SCALE]

HighBall == body_circle(0, 3 * SCALE, SCALE, DEFAULT, "highball")

Plank == body_obb(5000, 15000, 2 * SCALE, SCALE, METAL, "plank")

\* a platform whose mass was set after its construction
Anvil == set_mass(platform_circle(0, 0, SCALE, STONE, "anvil"), 5 * SCALE)

Wedge ==
  platform_polygon(10000, 0, <<Vec(-SCALE, -SCALE), Vec(SCALE, -SCALE), Vec(0, SCALE)>>,
                   0, STONE, "wedge").val

\* the lists add_bodies is called with
Scenes ==
  { <<Ground, Ball, Ball2>>,
    <<Crate, HighBall>>,
    <<Plank, Wedge, Ground>>,
    <<Anvil, Ground, Crate>> }

\* the bodies add_body is called with
Singles == {Ball}

Forces == {GRAVITY_EARTH}

Attractors == {Attractor(0, 5 * SCALE, 3 * SCALE, "Local", 10 * SCALE, 10 * SCALE, 20 * SCALE)}

NewTickRates == {10 * SCALE}

SetTickRates == {60 * SCALE}

Precisions == {3, 250}

\* World::new(tick_rate, _)
WorldNew(rate) ==
  /\ bodies = <<>>
  /\ forces = ZERO
  /\ attractors = <<>>
  /\ manifolds = NoManifolds
  /\ possible_collisions = <<>>
  /\ collision_points = <<>>
  /\ tick_rate = rate
  /\ delta_time = Div(SCALE, rate)
  /\ collision_precision = 1

\* World::default()
WorldDefault ==
  /\ bodies = <<>>
  /\ forces = ZERO
  /\ attractors = <<>>
  /\ manifolds = NoManifolds
  /\ possible_collisions = <<>>
  /\ collision_points = <<>>
  /\ tick_rate = 0
  /\ delta_time = 0
  /\ collision_precision = 0

\* no detection routine applied on its own yet
NoProbe == [op |-> "none"]

Idle ==
  /\ pc = "idle"
  /\ pass = 0
  /\ order = <<>>
  /\ trace = <<>>
  /\ stats = NoManifolds
  /\ ticks = 0
  /\ ops = 0
  /\ probe = NoProbe

Init == Idle /\ ((\E rate \in NewTickRates : WorldNew(rate)) \/ WorldDefault)

history == <<pass, order, trace, stats, ticks, probe>>

\* a mutator call between two update() calls
Call == pc = "idle" /\ ops < MaxOps /\ ops' = ops + 1 /\ pc' = pc /\ UNCHANGED history

add_body(body) ==
  /\ Call
  /\ Len(bodies) < MaxBodies
  /\ bodies' = Append(bodies, body)
  /\ UNCHANGED <<forces, attractors, manifolds, possible_collisions,
                 collision_points, tick_rate, delta_time, collision_precision>>

add_bodies(list) ==
  /\ Call
  /\ Len(bodies) + Len(list) <= MaxBodies
  /\ bodies' = bodies \o list
  /\ UNCHANGED <<forces, attractors, manifolds, possible_collisions,
                 collision_points, tick_rate, delta_time, collision_precision>>

\* remove_body; probe keeps what the call returned
remove_body(body_idx) ==
  /\ pc = "idle"
  /\ ops < MaxOps
  /\ ops' = ops + 1
  /\ bodies' = IF body_idx >= Len(bodies) THEN bodies ELSE RemoveAt(bodies, body_idx)
  /\ probe' = [op |-> "remove_body", body_idx |-> body_idx,
               returned |-> IF body_idx >= Len(bodies) THEN None
                            ELSE Some(BodyAt(bodies, body_idx))]
  /\ UNCHANGED <<forces, attractors, manifolds, possible_collisions,
                 collision_points, tick_rate, delta_time, collision_precision,
                 pc, pass, order, trace, stats, ticks>>

add_force(force) ==
  /\ Call
  /\ forces' = VAdd(forces, force)
  /\ UNCHANGED <<bodies, attractors, manifolds, possible_collisions,
                 collision_points, tick_rate, delta_time, collision_precision>>

remove_force(force) ==
  /\ Call
  /\ forces' = VSub(forces, force)
  /\ UNCHANGED <<bodies, attractors, manifolds, possible_collisions,
                 collision_points, tick_rate, delta_time, collision_precision>>

add_attractor(attractor) ==
  /\ Call
  /\ attractors' = Append(attractors, attractor)
  /\ UNCHANGED <<bodies, forces, manifolds, possible_collisions,
                 collision_points, tick_rate, delta_time, collision_precision>>

remove_attractor(attractor_idx) ==
  /\ Call
  /\ attractors' = IF attractor_idx >= Len(attractors) THEN attractors
                   ELSE RemoveAt(attractors, attractor_idx)
  /\ UNCHANGED <<bodies, forces, manifolds, possible_collisions,
                 collision_points, tick_rate, delta_time, collision_precision>>

clear ==
  /\ Call
  /\ bodies' = <<>>
  /\ attractors' = <<>>
  /\ forces' = ZERO
  /\ manifolds' = NoManifolds
  /\ possible_collisions' = <<>>
  /\ collision_points' = <<>>
  /\ UNCHANGED <<tick_rate, delta_time, collision_precision>>

set_tick_rate(rate) ==
  /\ Call
  /\ tick_rate' = rate
  /\ delta_time' = Div(SCALE, rate)
  /\ UNCHANGED <<bodies, forces, attractors, manifolds, possible_collisions,
                 collision_points, collision_precision>>

set_collision_precision(precision) ==
  /\ Call
  /\ collision_precision' = IF precision < 10 THEN 10
                            ELSE IF precision > 100 THEN 100 ELSE precision
  /\ UNCHANGED <<bodies, forces, attractors, manifolds, possible_collisions,
                 collision_points, tick_rate, delta_time>>



\* a variant of the broad phase that keeps the collision_points of the
\* tick before
UpdateBroadKeepingPoints ==
  /\ pc = "idle"
  /\ ticks < MaxTicks
  /\ ticks' = ticks + 1
  /\ possible_collisions' = broad_phase(bodies, possible_collisions)
  /\ pc' = "narrow"
  /\ pass' = 0
  /\ order' = <<>>
  /\ trace' = <<"broad">>
  /\ stats' = NoManifolds
  /\ UNCHANGED <<bodies, forces, attractors, manifolds, collision_points, tick_rate,
                 delta_time, collision_precision, ops, probe>>

\* update(), broad phase: collision_points cleared, the candidates collected
UpdateBroad ==
  /\ pc = "idle"
  /\ ticks < MaxTicks
  /\ ticks' = ticks + 1
  /\ collision_points' = <<>>
  /\ possible_collisions' = broad_phase(bodies, possible_collisions)
  /\ pc' = "narrow"
  /\ pass' = 0
  /\ order' = <<>>
  /\ trace' = <<"broad">>
  /\ stats' = NoManifolds
  /\ UNCHANGED <<bodies, forces, attractors, manifolds, tick_rate, delta_time,
                 collision_precision, ops, probe>>

\* the unit vectors rand_normal may hand to the detection of this update()
Draws ==
  IF \E i \in 1..Len(possible_collisions) :
       BodyAt(bodies, possible_collisions[i][1]).transform.location
         = BodyAt(bodies, possible_collisions[i][2]).transform.location
  THEN RandNormals ELSE {NORMAL_UP}

\* a variant of the narrow phase that reads the candidates and leaves them
\* in the list
UpdateNarrowKeepingCandidates ==
  /\ pc = "narrow"
  /\ \E rnd \in Draws :
       \E r \in {narrow_phase(bodies, possible_collisions, manifolds,
                              collision_points, rnd)} :
          IF r.panic
          THEN /\ pc' = "aborted"
               /\ UNCHANGED <<manifolds, collision_points, order, stats>>
          ELSE /\ pc' = "forces"
               /\ manifolds' = r.manifolds
               /\ collision_points' = r.collision_points
               /\ order' \in Orders(DOMAIN r.manifolds)
               /\ stats' = [k \in DOMAIN r.manifolds |->
                              [setup |-> 0, resolve |-> 0, correct |-> 0,
                               correct_at |-> 0]]
  /\ possible_collisions' = possible_collisions
  /\ trace' = Append(trace, "narrow")
  /\ UNCHANGED <<bodies, forces, attractors, tick_rate, delta_time,
                 collision_precision, pass, ticks, ops, probe>>

\* update(), narrow phase: the candidates taken, a manifold per collision
UpdateNarrow ==
  /\ pc = "narrow"
  /\ \E rnd \in Draws :
       \E r \in {narrow_phase(bodies, possible_collisions, manifolds,
                              collision_points, rnd)} :
          IF r.panic
          THEN /\ pc' = "aborted"
               /\ UNCHANGED <<manifolds, collision_points, order, stats>>
          ELSE /\ pc' = "forces"
               /\ manifolds' = r.manifolds
               /\ collision_points' = r.collision_points
               /\ order' \in Orders(DOMAIN r.manifolds)
               /\ stats' = [k \in DOMAIN r.manifolds |->
                              [setup |-> 0, resolve |-> 0, correct |-> 0,
                               correct_at |-> 0]]
  /\ possible_collisions' = <<>>
  /\ trace' = Append(trace, "narrow")
  /\ UNCHANGED <<bodies, forces, attractors, tick_rate, delta_time,
                 collision_precision, pass, ticks, ops, probe>>

\* update(), forces and attractors on the Dynamic bodies
\* a variant of the forces step that goes on to integration whether or not
\* there are manifolds
UpdateForcesThenIntegrate ==
  /\ pc = "forces"
  /\ bodies' = ApplyForces(bodies, forces, attractors, delta_time)
  /\ pc' = "integrate"
  /\ trace' = Append(trace, "forces")
  /\ UNCHANGED <<forces, attractors, manifolds, possible_collisions,
                 collision_points, tick_rate, delta_time, collision_precision,
                 pass, order, stats, ticks, ops, probe>>

UpdateForces ==
  /\ pc = "forces"
  /\ bodies' = ApplyForces(bodies, forces, attractors, delta_time)
  /\ pc' = IF DOMAIN manifolds # {} THEN "setup" ELSE "integrate"
  /\ trace' = Append(trace, "forces")
  /\ UNCHANGED <<forces, attractors, manifolds, possible_collisions,
                 collision_points, tick_rate, delta_time, collision_precision,
                 pass, order, stats, ticks, ops, probe>>

\* update(), setup_resolutions
UpdateSetup ==
  /\ pc = "setup"
  /\ manifolds' = setup_resolutions(manifolds, bodies, forces, delta_time)
  /\ stats' = [k \in DOMAIN stats |-> [stats[k] EXCEPT !.setup = @ + 1]]
  /\ pc' = IF pass < collision_precision THEN "resolve" ELSE "correct"
  /\ trace' = Append(trace, "setup")
  /\ UNCHANGED <<bodies, forces, attractors, possible_collisions,
                 collision_points, tick_rate, delta_time, collision_precision,
                 pass, order, ticks, ops, probe>>

\* a variant of the velocity pass whose loop runs once more
UpdateResolveOnceMore ==
  /\ pc = "resolve"
  /\ bodies' = resolve_collisions(manifolds, order, 1, bodies)
  /\ stats' = [k \in DOMAIN stats |-> [stats[k] EXCEPT !.resolve = @ + 1]]
  /\ pass' = pass + 1
  /\ pc' = IF pass + 1 <= collision_precision THEN "resolve" ELSE "correct"
  /\ trace' = Append(trace, "resolve")
  /\ UNCHANGED <<forces, attractors, manifolds, possible_collisions,
                 collision_points, tick_rate, delta_time, collision_precision,
                 order, ticks, ops, probe>>

\* update(), one velocity pass of the loop over 0..collision_precision
UpdateResolve ==
  /\ pc = "resolve"
  /\ bodies' = resolve_collisions(manifolds, order, 1, bodies)
  /\ stats' = [k \in DOMAIN stats |-> [stats[k] EXCEPT !.resolve = @ + 1]]
  /\ pass' = pass + 1
  /\ pc' = IF pass + 1 < collision_precision THEN "resolve" ELSE "correct"
  /\ trace' = Append(trace, "resolve")
  /\ UNCHANGED <<forces, attractors, manifolds, possible_collisions,
                 collision_points, tick_rate, delta_time, collision_precision,
                 order, ticks, ops, probe>>

\* a variant of the correction step without manifolds.clear()
UpdateCorrectKeepingManifolds ==
  /\ pc = "correct"
  /\ bodies' = correct_positions(manifolds, order, 1, bodies)
  /\ stats' = [k \in DOMAIN stats |->
                 [stats[k] EXCEPT !.correct = @ + 1, !.correct_at = stats[k].resolve]]
  /\ pc' = "integrate"
  /\ trace' = Append(trace, "correct")
  /\ UNCHANGED <<forces, attractors, manifolds, possible_collisions, collision_points,
                 tick_rate, delta_time, collision_precision, pass, order,
                 ticks, ops, probe>>

\* update(), correct_positions and manifolds.clear()
UpdateCorrect ==
  /\ pc = "correct"
  /\ bodies' = correct_positions(manifolds, order, 1, bodies)
  /\ stats' = [k \in DOMAIN stats |->
                 [stats[k] EXCEPT !.correct = @ + 1, !.correct_at = stats[k].resolve]]
  /\ manifolds' = NoManifolds
  /\ pc' = "integrate"
  /\ trace' = Append(trace, "correct")
  /\ UNCHANGED <<forces, attractors, possible_collisions, collision_points,
                 tick_rate, delta_time, collision_precision, pass, order,
                 ticks, ops, probe>>

\* update(), integration of the Dynamic bodies; the call returns
UpdateIntegrate ==
  /\ pc = "integrate"
  /\ bodies' = Integrate(bodies, delta_time)
  /\ pc' = "idle"
  /\ trace' = Append(trace, "integrate")
  /\ UNCHANGED <<forces, attractors, manifolds, possible_collisions,
                 collision_points, tick_rate, delta_time, collision_precision,
                 pass, order, stats, ticks, ops, probe>>

Next ==
  \/ \E body \in Singles : add_body(body)
  \/ \E list \in Scenes : add_bodies(list)
  \/ \E body_idx \in 0..Len(bodies) : remove_body(body_idx)
  \/ \E force \in Forces : add_force(force)
  \/ \E force \in Forces : remove_force(force)
  \/ \E attractor \in Attractors : add_attractor(attractor)
  \/ \E attractor_idx \in 0..Len(attractors) : remove_attractor(attractor_idx)
  \/ clear
  \/ \E rate \in SetTickRates : set_tick_rate(rate)
  \/ \E precision \in Precisions : set_collision_precision(precision)
  \/ UpdateBroad
  \/ UpdateNarrow
  \/ UpdateForces
  \/ UpdateSetup
  \/ UpdateResolve
  \/ UpdateCorrect
  \/ UpdateIntegrate

Spec == Init /\ [][Next]_vars

\* ------------------------------------------------------------------------
\* The detection routines on their own: two bodies, the first at the origin
\* ------------------------------------------------------------------------

\* the second body lies at (i / 2, j / 2) for |i| <= ReachX and |j| <= ReachY
ReachX == 5

ReachY == 2

ProbeKinds == {"circle", "small", "box", "plank", "wedge"}

\* a body of that kind at (x, y)
Probe(kind, x, y) ==
  IF kind = "circle" THEN body_circle(x, y, SCALE, DEFAULT, kind)
  ELSE IF kind = "small" THEN platform_circle(x, y, SCALE \div 2, STONE, kind)
  ELSE IF kind = "box" THEN body_aabb(x, y, 2 * SCALE, 2 * SCALE, DEFAULT, kind)
  ELSE IF kind = "plank" THEN body_obb(x, y, 2 * SCALE, SCALE, METAL, kind)
  ELSE body_polygon(x, y, <<Vec(-SCALE, -SCALE), Vec(2 * SCALE, -SCALE),
                            Vec(-SCALE, 2 * SCALE)>>, RUBBER, kind).val

\* where the second body lies: the half-unit grid, and a point at distance
\* 2 from the origin off the axes
ProbePlaces ==
  {Vec(i * (SCALE \div 2), j * (SCALE \div 2)) : i \in -ReachX..ReachX, j \in -ReachY..ReachY}
    \cup {Vec((12 * SCALE) \div 10, (16 * SCALE) \div 10)}

InitDetect ==
  /\ \E ka \in ProbeKinds \ {"small"}, kb \in ProbeKinds, at \in ProbePlaces :
       bodies = <<Probe(ka, 0, 0), Probe(kb, at.x, at.y)>>
  /\ forces = ZERO
  /\ attractors = <<>>
  /\ manifolds = NoManifolds
  /\ possible_collisions = <<>>
  /\ collision_points = <<>>
  /\ \E rate \in NewTickRates : tick_rate = rate /\ delta_time = Div(SCALE, rate)
  /\ collision_precision = 1
  /\ pc = "probe"
  /\ pass = 0
  /\ order = <<>>
  /\ trace = <<>>
  /\ stats = NoManifolds
  /\ ticks = 0
  /\ ops = 0
  /\ probe = NoProbe

\* hitboxes_collide applied to the two bodies, in both orders
ProbeHitboxes ==
  /\ pc = "probe"
  /\ probe = NoProbe
  /\ probe' = [op |-> "hitboxes_collide",
               ab |-> hitboxes_collide(bodies[1], bodies[2]),
               ba |-> hitboxes_collide(bodies[2], bodies[1])]
  /\ UNCHANGED <<world, pc, pass, order, trace, stats, ticks, ops>>

\* detect_collision applied to the two bodies, in both orders
ProbeDetect ==
  /\ pc = "probe"
  /\ probe = NoProbe
  /\ \E rnd \in (IF bodies[1].transform.location = bodies[2].transform.location
                 THEN RandNormals ELSE {NORMAL_UP}) :
       probe' = [op |-> "detect_collision", rnd |-> rnd,
                 ab |-> detect_collision(bodies[1], 0, bodies[2], 1, rnd),
                 ba |-> detect_collision(bodies[2], 1, bodies[1], 0, rnd)]
  /\ UNCHANGED <<world, pc, pass, order, trace, stats, ticks, ops>>

NextDetect == ProbeHitboxes \/ ProbeDetect

SpecDetect == InitDetect /\ [][NextDetect]_vars

\* ------------------------------------------------------------------------
\* The resolution of one manifold, contact by contact (SpecResolve)
\* ------------------------------------------------------------------------

\* the velocity passes made over the manifold
ResolvePasses == 2

\* the kinds of Probe and a platform whose mass was set after construction
ResolveBody(kind, x, y) ==
  IF kind = "anvil" THEN set_mass(platform_circle(x, y, SCALE, STONE, kind), 5 * SCALE)
  ELSE Probe(kind, x, y)

\* the pairs resolved: the kinds of both bodies and where the second lies
ResolvePairs ==
  { <<"circle", "circle", Vec(15000, 0)>>,
    <<"circle", "circle", Vec(5000, 10000)>>,
    <<"circle", "box", Vec(15000, 5000)>>,
    <<"box", "circle", Vec(15000, 5000)>>,
    <<"box", "box", Vec(15000, 5000)>>,
    <<"box", "box", Vec(2 * SCALE, 0)>>,
    <<"plank", "plank", Vec(15000, 5000)>>,
    <<"plank", "wedge", Vec(5000, 5000)>>,
    <<"wedge", "circle", Vec(SCALE, 5000)>>,
    <<"circle", "small", Vec(SCALE, 0)>>,
    <<"box", "anvil", Vec(15000, 0)>> }

VelocitiesA == {ZERO, Vec(2 * SCALE, 5000)}

VelocitiesB == {ZERO, Vec(-SCALE, 0), Vec(3 * SCALE, SCALE), Vec(0, -2 * SCALE)}

SpinsB == {0, SCALE}

\* the body moving at that velocity; the platforms are left at rest
Moving(body, velocity, angular_velocity) ==
  IF body.body_type = "Static" THEN body
  ELSE [body EXCEPT !.transform.velocity = velocity,
                    !.transform.angular_velocity = angular_velocity]

\* the key under which the probed manifold is kept
Probed == <<0, 1>>

InitResolve ==
  /\ \E pair \in ResolvePairs, va \in VelocitiesA, vb \in VelocitiesB, wb \in SpinsB :
       bodies = <<Moving(ResolveBody(pair[1], 0, 0), va, 0),
                  Moving(ResolveBody(pair[2], pair[3].x, pair[3].y), vb, wb)>>
  /\ forces \in {ZERO, GRAVITY_EARTH}
  /\ attractors = <<>>
  /\ manifolds = NoManifolds
  /\ possible_collisions = <<>>
  /\ collision_points = <<>>
  /\ \E rate \in NewTickRates : tick_rate = rate /\ delta_time = Div(SCALE, rate)
  /\ collision_precision = 1
  /\ pc = "probe"
  /\ pass = 0
  /\ order = <<>>
  /\ trace = <<>>
  /\ stats = NoManifolds
  /\ ticks = 0
  /\ ops = 0
  /\ probe = NoProbe

\* detect_collision on the pair and Manifold::setup on what it returned
ProbeSetup ==
  /\ pc = "probe"
  /\ \E r \in {detect_collision(bodies[1], 0, bodies[2], 1, NORMAL_UP)} :
       /\ r.some
       /\ manifolds' = (Probed :> setup(r.val, BodyAt(bodies, r.val.a_idx),
                                        BodyAt(bodies, r.val.b_idx),
                                        VMul(forces, delta_time)))
  /\ pc' = "resolve"
  /\ probe' = [op |-> "setup", start |-> bodies]
  /\ UNCHANGED <<bodies, forces, attractors, possible_collisions, collision_points,
                 tick_rate, delta_time, collision_precision, pass, order, trace,
                 stats, ticks, ops>>

\* one contact c of resolve(m, a, b): the impulses and the bodies in between
ProbeContactOn(m, c, a, b) ==
  \E jn \in {NormalImpulse(m, c, a, b)} :
    \E mid \in {apply_impulses(a, b, VMul(m.normal, jn), c.diff_to_a, c.diff_to_b)} :
      /\ bodies' = WithPair(bodies, m.a_idx, m.b_idx, ResolveContact(m, c, <<a, b>>))
      /\ probe' = [op |-> "resolve", start |-> probe.start,
                   v_rel_n |-> dot(RelativeVelocity(a, b, c.diff_to_a, c.diff_to_b),
                                   m.normal),
                   jn |-> jn, jt |-> FrictionImpulse(m, c, mid[1], mid[2], jn),
                   before |-> <<a, b>>, mid |-> mid]

\* the next contact of the velocity pass under way
ProbeContactOf(m) ==
  ProbeContactOn(m, m.contacts[(pass % m.contact_count) + 1],
                 BodyAt(bodies, m.a_idx), BodyAt(bodies, m.b_idx))

ProbeContact ==
  /\ pc = "resolve"
  /\ pass < ResolvePasses * manifolds[Probed].contact_count
  /\ ProbeContactOf(manifolds[Probed])
  /\ pass' = pass + 1
  /\ UNCHANGED <<forces, attractors, manifolds, possible_collisions, collision_points,
                 tick_rate, delta_time, collision_precision, pc, order, trace,
                 stats, ticks, ops>>

\* correct_position on the manifold, between two velocity passes or after them
ProbeCorrect ==
  /\ pc = "resolve"
  /\ pass % manifolds[Probed].contact_count = 0
  /\ bodies' = correct_position(manifolds[Probed], bodies)
  /\ probe' = [op |-> "correct_position", start |-> probe.start, before |-> bodies]
  /\ pc' = "corrected"
  /\ UNCHANGED <<forces, attractors, manifolds, possible_collisions, collision_points,
                 tick_rate, delta_time, collision_precision, pass, order, trace,
                 stats, ticks, ops>>

NextResolve == ProbeSetup \/ ProbeContact \/ ProbeCorrect

SpecResolve == InitResolve /\ [][NextResolve]_vars

\* ------------------------------------------------------------------------
\* The pull of one attractor on one body (SpecAttract)
\* ------------------------------------------------------------------------

\* the attractors probed, at the origin: a Local one of range 3 and a Global
\* one with clamp distances apart, and one whose clamp distances are both 1
ProbeAttractors ==
  { Attractor(0, 0, 3 * SCALE, "Local", 10 * SCALE, SCALE, 4 * SCALE),
    Attractor(0, 0, SCALE, "Global", 5 * SCALE, 2 * SCALE, 3 * SCALE),
    Attractor(0, 0, 2 * SCALE, "Local", 10 * SCALE, SCALE, SCALE) }

InitAttract ==
  /\ \E kind \in ProbeKinds, at \in ProbePlaces : bodies = <<Probe(kind, at.x, at.y)>>
  /\ \E attractor \in ProbeAttractors : attractors = <<attractor>>
  /\ forces = ZERO
  /\ manifolds = NoManifolds
  /\ possible_collisions = <<>>
  /\ collision_points = <<>>
  /\ \E rate \in NewTickRates : tick_rate = rate /\ delta_time = Div(SCALE, rate)
  /\ collision_precision = 1
  /\ pc = "probe"
  /\ pass = 0
  /\ order = <<>>
  /\ trace = <<>>
  /\ stats = NoManifolds
  /\ ticks = 0
  /\ ops = 0
  /\ probe = NoProbe

\* get_attraction of the attractor on the body
ProbeAttraction ==
  /\ pc = "probe"
  /\ probe = NoProbe
  /\ probe' = [op |-> "get_attraction", pull |-> get_attraction(attractors[1], bodies[1])]
  /\ UNCHANGED <<world, pc, pass, order, trace, stats, ticks, ops>>

NextAttract == ProbeAttraction

SpecAttract == InitAttract /\ [][NextAttract]_vars

\* ------------------------------------------------------------------------
\* The constructors of Body (SpecConstruct)
\* ------------------------------------------------------------------------

Constructors ==
  {"circle", "aabb", "obb", "polygon", "platform_rectangle_obb",
   "platform_rectangle_aabb", "platform_circle", "platform_polygon"}

\* the vertex lists handed to the polygon constructors, in units
Outlines ==
  { <<>>,
    <<Vec(0, 0)>>,
    <<Vec(0, 0), Vec(2, 0)>>,
    <<Vec(0, 0), Vec(1, 0), Vec(2, 0)>>,
    <<Vec(-1, -1), Vec(0, 1), Vec(1, -1)>>,
    <<Vec(-1, -1), Vec(1, -1), Vec(0, 1)>>,
    <<Vec(-1, 1), Vec(1, 1), Vec(1, -1), Vec(-1, -1)>>,
    <<Vec(0, 0), Vec(2, 2), Vec(4, 0), Vec(2, 1)>>,
    <<Vec(0, 0), Vec(2, 2), Vec(2, 0), Vec(0, 2)>>,
    <<Vec(0, 3), Vec(2, -2), Vec(-3, 1), Vec(3, 1), Vec(-2, -2)>>,
    <<Vec(0, 3), Vec(3, 1), Vec(2, -2), Vec(-2, -2), Vec(-3, 1)>>,
    <<Vec(-1, 2), Vec(1, 2), Vec(2, 0), Vec(1, -2), Vec(-1, -2), Vec(-2, 0)>>,
    <<Vec(-1, 2), Vec(1, 2), Vec(2, 1), Vec(2, -1), Vec(1, -2), Vec(-1, -2),
      Vec(-2, -1), Vec(-2, 1)>>,
    <<Vec(-1, 2), Vec(0, 2), Vec(1, 2), Vec(2, 1), Vec(2, -1), Vec(1, -2),
      Vec(-1, -2), Vec(-2, -1), Vec(-2, 1)>> }

InUnits(outline) ==
  [i \in 1..Len(outline) |-> Vec(outline[i].x * SCALE, outline[i].y * SCALE)]

Rotations == {0, PI \div 2}

Extents == {SCALE, 3 * SCALE}

\* the arguments of one constructor call
Arguments ==
  [constructor : {"polygon", "platform_polygon"}, vertices : Outlines,
   rotation : Rotations, width : {SCALE}, height : {SCALE},
   material : {DEFAULT, STONE}]
  \cup
  [constructor : Constructors \ {"polygon", "platform_polygon"}, vertices : {<<>>},
   rotation : Rotations, width : Extents, height : Extents,
   material : {DEFAULT, STONE}]

\* what the constructor returns for the arguments, a plain Body as Some
Construct(args) ==
  LET x == SCALE
      y == 2 * SCALE
      m == args.material
      w == args.width
      h == args.height
  IN CASE args.constructor = "circle" -> Some(body_circle(x, y, w, m, "probe"))
       [] args.constructor = "aabb" -> Some(body_aabb(x, y, w, h, m, "probe"))
       [] args.constructor = "obb" -> Some(body_obb(x, y, w, h, m, "probe"))
       [] args.constructor = "polygon" ->
            body_polygon(x, y, InUnits(args.vertices), m, "probe")
       [] args.constructor = "platform_rectangle_obb" ->
            Some(platform_rectangle_obb(x, y, w, h, args.rotation, m, "probe"))
       [] args.constructor = "platform_rectangle_aabb" ->
            Some(platform_rectangle_aabb(x, y, w, h, m, "probe"))
       [] args.constructor = "platform_circle" ->
            Some(platform_circle(x, y, w, m, "probe"))
       [] args.constructor = "platform_polygon" ->
            platform_polygon(x, y, InUnits(args.vertices), args.rotation, m, "probe")

InitConstruct ==
  /\ bodies = <<>>
  /\ attractors = <<>>
  /\ forces = ZERO
  /\ manifolds = NoManifolds
  /\ possible_collisions = <<>>
  /\ collision_points = <<>>
  /\ \E rate \in NewTickRates : tick_rate = rate /\ delta_time = Div(SCALE, rate)
  /\ collision_precision = 1
  /\ pc = "probe"
  /\ pass = 0
  /\ order = <<>>
  /\ trace = <<>>
  /\ stats = NoManifolds
  /\ ticks = 0
  /\ ops = 0
  /\ \E args \in Arguments : probe = [op |-> "arguments", args |-> args]

\* one call of a constructor: an associated function, the world is not
\* its argument
ProbeConstructor ==
  /\ pc = "probe"
  /\ probe.op = "arguments"
  /\ probe' = [op |-> "constructor", args |-> probe.args,
               returned |-> Construct(probe.args)]
  /\ UNCHANGED <<world, pc, pass, order, trace, stats, ticks, ops>>

NextConstruct == ProbeConstructor

SpecConstruct == InitConstruct /\ [][NextConstruct]_vars

\* ------------------------------------------------------------------------
\* Detection run again on the bodies as they are (SpecRedetect)
\* ------------------------------------------------------------------------

\* how often broad phase and narrow phase run
Redetections == 2

\* a Dynamic circle made immovable: set_mass(f32::INFINITY)
Boulder(x, y) == set_mass(body_circle(x, y, SCALE, STONE, "boulder"), INFINITY)

InitRedetect ==
  /\ \E ka \in ProbeKinds \ {"small"}, kb \in ProbeKinds, at \in ProbePlaces,
        third \in {Probe("circle", -SCALE, 0), Boulder(-SCALE, 0)} :
       bodies = <<Probe(ka, 0, 0), Probe(kb, at.x, at.y), third>>
  /\ forces = ZERO
  /\ attractors = <<>>
  /\ manifolds = NoManifolds
  /\ possible_collisions = <<>>
  /\ collision_points = <<>>
  /\ \E rate \in NewTickRates : tick_rate = rate /\ delta_time = Div(SCALE, rate)
  /\ collision_precision = 1
  /\ pc = "detect"
  /\ pass = 0
  /\ order = <<>>
  /\ trace = <<>>
  /\ stats = NoManifolds
  /\ ticks = 0
  /\ ops = 0
  /\ probe = NoProbe

\* broad_phase
DetectBroad ==
  /\ pc = "detect"
  /\ pass < Redetections
  /\ collision_points' = <<>>
  /\ possible_collisions' = broad_phase(bodies, possible_collisions)
  /\ pc' = "detect-narrow"
  /\ UNCHANGED <<bodies, forces, attractors, manifolds, tick_rate, delta_time,
                 collision_precision, pass, order, trace, stats, ticks, ops, probe>>

\* narrow_phase; probe keeps what the first run found and whether a normal
\* was drawn at random since
DetectNarrow ==
  /\ pc = "detect-narrow"
  /\ \E rnd \in Draws :
       \E r \in {narrow_phase(bodies, possible_collisions, manifolds,
                              collision_points, rnd)} :
          IF r.panic
          THEN /\ pc' = "aborted"
               /\ UNCHANGED <<manifolds, collision_points, probe>>
          ELSE /\ pc' = "detect"
               /\ manifolds' = r.manifolds
               /\ collision_points' = r.collision_points
               /\ probe' = IF pass = 0
                           THEN [op |-> "detection", start |-> bodies,
                                 first |-> r.manifolds,
                                 random |-> Draws # {NORMAL_UP}]
                           ELSE probe
  /\ possible_collisions' = <<>>
  /\ pass' = pass + 1
  /\ UNCHANGED <<bodies, forces, attractors, tick_rate, delta_time,
                 collision_precision, order, trace, stats, ticks, ops>>

NextRedetect == DetectBroad \/ DetectNarrow

SpecRedetect == InitRedetect /\ [][NextRedetect]_vars

\* ------------------------------------------------------------------------
\* Properties
\* ------------------------------------------------------------------------

IsStatic(body) == body.body_type = "Static"

\* a step of update(), from its first phase to its return
UpdateStep == pc # "idle" \/ pc' # "idle"

\* C1: across every step of update() (forces, velocity resolution,
\* positional correction, integration) every Static body keeps its location,
\* its velocity and its angular velocity.
C1_StaticBodiesNeverChange ==
  [][UpdateStep =>
       \A i \in 1..Len(bodies) :
          IsStatic(bodies[i]) => bodies'[i].transform = bodies[i].transform]_vars

\* The same for the Static bodies whose mass and inertia are 0, as the
\* constructors leave them: this holds.
MasslessStaticBodiesNeverChange ==
  [][UpdateStep =>
       \A i \in 1..Len(bodies) :
          (IsStatic(bodies[i]) /\ bodies[i].inverse_mass = 0
             /\ bodies[i].inverse_inertia = 0)
            => bodies'[i].transform = bodies[i].transform]_vars

\* C2: collision_precision lies in [10, 100] in every reachable state,
\* the state right after World::new or World::default included.
C2_PrecisionWithinRange == collision_precision \in 10..100

\* the phases of one update() in the order the program text has them, with
\* k velocity passes, the resolution only where there are manifolds
Canon(resolving, k) ==
  <<"broad", "narrow", "forces">>
    \o (IF resolving
        THEN <<"setup">> \o [i \in 1..k |-> "resolve"] \o <<"correct">>
        ELSE <<>>)
    \o <<"integrate">>

Resolves(t) == Cardinality({i \in DOMAIN t : t[i] = "resolve"})

IsPrefix(t, u) == Len(t) <= Len(u) /\ \A i \in 1..Len(t) : t[i] = u[i]

\* C3: the phases of update() run in the order broad phase, narrow phase,
\* forces and attractors, then only if there are manifolds setup, the
\* velocity passes and the positional correction, then integration; a
\* finished update() has run them all.
C3_PhasesRunInOrder ==
  /\ IsPrefix(trace, Canon(DOMAIN stats # {}, Resolves(trace)))
  /\ (pc = "idle" /\ ticks > 0) => trace = Canon(DOMAIN stats # {}, Resolves(trace))

\* an update() that resolved manifolds has returned
C3_ResolvingUpdateFinished ==
  /\ pc = "idle"
  /\ ticks > 0
  /\ DOMAIN stats # {}
  /\ Resolves(trace) >= 1
  /\ trace[Len(trace)] = "integrate"

\* what update() has done to a manifold once the correction is over
Settled(precision) ==
  [setup |-> 1, resolve |-> precision, correct |-> 1, correct_at |-> precision]

\* C4: in an update() with manifolds every manifold is set up exactly once,
\* velocity-resolved exactly collision_precision times and corrected exactly
\* once, after the last pass; in an update() without manifolds none of the
\* three runs.
C4_EachManifoldSetUpResolvedCorrected ==
  /\ pc \in {"forces", "setup", "resolve", "correct"} => DOMAIN stats = DOMAIN manifolds
  /\ pc \in {"resolve", "correct"} => \A k \in DOMAIN stats : stats[k].setup = 1
  /\ pc = "correct" => \A k \in DOMAIN stats : stats[k].resolve = collision_precision
  /\ pc = "integrate" => \A k \in DOMAIN stats : stats[k] = Settled(collision_precision)
  /\ (pc = "integrate" /\ DOMAIN stats = {}) => trace = <<"broad", "narrow", "forces">>

\* two manifolds resolved at a precision of ten passes
C4_TwoManifoldsTenPasses ==
  /\ pc = "integrate"
  /\ collision_precision = 10
  /\ Cardinality(DOMAIN stats) >= 2
  /\ \A k \in DOMAIN stats : stats[k].resolve = 10

\* C5: after every update() the manifold map is empty.
C5_NoManifoldsBetweenUpdates == pc = "idle" => DOMAIN manifolds = {}

\* an update() that had manifolds has returned and left none
C5_ManifoldsResolvedAndCleared ==
  pc = "idle" /\ ticks > 0 /\ DOMAIN stats # {} /\ DOMAIN manifolds = {}

\* the hitbox of the body in world coordinates
WorldBox(body) == HitboxAdd(body.hitbox, body.transform.location)

\* by how much the boxes of a and b overlap on each axis (negative: a gap)
ExtentX(a, b) ==
  FMin(WorldBox(a).max.x, WorldBox(b).max.x) - FMax(WorldBox(a).min.x, WorldBox(b).min.x)

ExtentY(a, b) ==
  FMin(WorldBox(a).max.y, WorldBox(b).max.y) - FMax(WorldBox(a).min.y, WorldBox(b).min.y)

\* the pairs the broad phase has to list
OverlappingPairs ==
  {p \in (0..(Len(bodies) - 1)) \X (0..(Len(bodies) - 1)) :
     /\ p[1] < p[2]
     /\ ~(IsStatic(BodyAt(bodies, p[1])) /\ IsStatic(BodyAt(bodies, p[2])))
     /\ ExtentX(BodyAt(bodies, p[1]), BodyAt(bodies, p[2])) > 0
     /\ ExtentY(BodyAt(bodies, p[1]), BodyAt(bodies, p[2])) > 0}

\* C6: after the broad phase the candidate list holds exactly the pairs
\* (i, j), i < j, of bodies that are not both Static and whose world hitboxes
\* overlap, each once; a 2x2 box at the origin and a circle of radius 1 at
\* (0, 3) give no candidate.
C6_BroadPhaseListsOverlappingPairs ==
  pc = "narrow" =>
    /\ {possible_collisions[i] : i \in 1..Len(possible_collisions)} = OverlappingPairs
    /\ Len(possible_collisions) = Cardinality(OverlappingPairs)
    /\ bodies = <<Crate, HighBall>> => possible_collisions = <<>>

\* a broad phase that lists two pairs and leaves out an overlapping pair of
\* Static bodies
C6_StaticPairLeftOut ==
  /\ pc = "narrow"
  /\ Len(possible_collisions) = 2
  /\ \E i, j \in 1..Len(bodies) :
       /\ i < j
       /\ IsStatic(bodies[i]) /\ IsStatic(bodies[j])
       /\ ExtentX(bodies[i], bodies[j]) > 0 /\ ExtentY(bodies[i], bodies[j]) > 0

\* the two bodies the detection routines were applied to
ProbedA == bodies[1]

ProbedB == bodies[2]

\* C7: hitboxes_collide is TRUE exactly when the world hitboxes overlap by
\* more than nothing on both axes, so boxes that only touch do not collide,
\* and it gives the same answer for (a, b) and (b, a).
C7_HitboxesCollideIffStrictOverlap ==
  probe.op = "hitboxes_collide" =>
    /\ probe.ab = (ExtentX(ProbedA, ProbedB) > 0 /\ ExtentY(ProbedA, ProbedB) > 0)
    /\ probe.ba = probe.ab

\* two hitboxes that share an edge and nothing more were found not to collide
C7_TouchingHitboxesDoNotCollide ==
  /\ probe.op = "hitboxes_collide"
  /\ ExtentX(ProbedA, ProbedB) = 0
  /\ ExtentY(ProbedA, ProbedB) > 0
  /\ ~probe.ab
  /\ ~probe.ba

\* Exact overlap of the probed shapes.  The probed bodies have their
\* coordinates on a grid of FINE to the unit, so the tests below are integer
\* arithmetic without rounding.
FINE == 2 * 10

Fine(v) == Vec(v.x \div (SCALE \div FINE), v.y \div (SCALE \div FINE))

FineVertices(body) ==
  [i \in 1..body.vertice_count |->
     Fine(VAdd(body.vertices[i], body.transform.location))]

IDot(u, v) == u.x * v.x + u.y * v.y

ICross(u, v) == u.x * v.y - u.y * v.x

\* the interiors of two convex polygons meet: no edge normal of either
\* separates them, touching counted as separate
IProjections(verts, n) == {IDot(verts[i], n) : i \in 1..Len(verts)}

Least2(S) == CHOOSE x \in S : \A y \in S : x <= y

Most2(S) == CHOOSE x \in S : \A y \in S : x >= y

Separates(n, P, Q) ==
  \/ Most2(IProjections(P, n)) <= Least2(IProjections(Q, n))
  \/ Most2(IProjections(Q, n)) <= Least2(IProjections(P, n))

EdgeNormals(P) ==
  {tangent(VSub(P[Nxt(i, Len(P))], P[i])) : i \in 1..Len(P)}

PolygonsOverlap(P, Q) ==
  ~\E n \in EdgeNormals(P) \cup EdgeNormals(Q) : Separates(n, P, Q)

\* the point c is strictly inside the convex polygon P
StrictlyInside(c, P) ==
  \/ \A i \in 1..Len(P) : ICross(VSub(P[Nxt(i, Len(P))], P[i]), VSub(c, P[i])) > 0
  \/ \A i \in 1..Len(P) : ICross(VSub(P[Nxt(i, Len(P))], P[i]), VSub(c, P[i])) < 0

\* the point c is nearer than r to the segment from p to q
NearSegment(c, r, p, q) ==
  IF IDot(VSub(c, p), VSub(q, p)) <= 0 THEN IDot(VSub(c, p), VSub(c, p)) < r * r
  ELSE IF IDot(VSub(c, q), VSub(p, q)) <= 0 THEN IDot(VSub(c, q), VSub(c, q)) < r * r
  ELSE ICross(VSub(q, p), VSub(c, p)) * ICross(VSub(q, p), VSub(c, p))
         < r * r * IDot(VSub(q, p), VSub(q, p))

CirclePolygonOverlap(c, r, P) ==
  \/ StrictlyInside(c, P)
  \/ \E i \in 1..Len(P) : NearSegment(c, r, P[i], P[Nxt(i, Len(P))])

FineRadius(body) == body.shape.r \div (SCALE \div FINE)

FineCentre(body) == Fine(body.transform.location)

CirclesOverlap(a, b) ==
  IDot(VSub(FineCentre(b), FineCentre(a)), VSub(FineCentre(b), FineCentre(a)))
    < (FineRadius(a) + FineRadius(b)) * (FineRadius(a) + FineRadius(b))

\* whether the shapes of the two bodies share interior points
TrulyOverlap(a, b) ==
  IF a.shape.kind = "Circle" /\ b.shape.kind = "Circle" THEN CirclesOverlap(a, b)
  ELSE IF a.shape.kind = "Circle"
  THEN CirclePolygonOverlap(FineCentre(a), FineRadius(a), FineVertices(b))
  ELSE IF b.shape.kind = "Circle"
  THEN CirclePolygonOverlap(FineCentre(b), FineRadius(b), FineVertices(a))
  ELSE PolygonsOverlap(FineVertices(a), FineVertices(b))

\* C8: detect_collision returns a manifold exactly when the two shapes truly
\* overlap and None when they are disjoint, for every ordered pair of shape
\* kinds; two AABBs that do not overlap give None.
C8_DetectsExactlyTheOverlaps ==
  probe.op = "detect_collision" =>
    /\ probe.ab.some = TrulyOverlap(ProbedA, ProbedB)
    /\ probe.ba.some = TrulyOverlap(ProbedB, ProbedA)

\* C9: whenever detect_collision returns a manifold for two bodies,
\* hitboxes_collide is TRUE for them.
C9_DetectedImpliesHitboxesCollide ==
  probe.op = "detect_collision" =>
    /\ probe.ab.some => hitboxes_collide(ProbedA, ProbedB)
    /\ probe.ba.some => hitboxes_collide(ProbedB, ProbedA)

BothCircles == ProbedA.shape.kind = "Circle" /\ ProbedB.shape.kind = "Circle"

\* the squared distance of the two centres, exact
CentresApartSquared ==
  (SCALE \div (FINE * FINE))
    * IDot(VSub(FineCentre(ProbedB), FineCentre(ProbedA)),
           VSub(FineCentre(ProbedB), FineCentre(ProbedA)))

\* the manifold m of circles a and b has the depth r1 + r2 - d, to the grid,
\* and one contact, on a's surface along the normal
CircleManifold(m, a, b) ==
  /\ SqLe(a.shape.r + b.shape.r - m.depth, CentresApartSquared)
  /\ ~SqLe(a.shape.r + b.shape.r - m.depth + 1, CentresApartSquared)
  /\ m.depth > 0
  /\ m.contact_count = 1
  /\ m.contacts[1].location = VAdd(a.transform.location, VMul(m.normal, a.shape.r))
  /\ Abs(len_squared(m.normal) - SCALE) <= 2 * THRESHHOLD

\* C10: circle_circle reports a collision exactly when the centres are
\* nearer than r1 + r2 (touching circles do not collide), the depth is
\* r1 + r2 - d, and there is one contact, on the surface of A along the
\* normal; unit circles at (0, 0) and (1.5, 0) give depth 0.5 and normal (1, 0).
C10_CirclesCollideIffNearerThanRadii ==
  (probe.op = "detect_collision" /\ BothCircles) =>
    /\ probe.ab.some = CirclesOverlap(ProbedA, ProbedB)
    /\ probe.ba.some = CirclesOverlap(ProbedA, ProbedB)
    /\ probe.ab.some => CircleManifold(probe.ab.val, ProbedA, ProbedB)
    /\ probe.ba.some => CircleManifold(probe.ba.val, ProbedB, ProbedA)

\* the unit circles at (0, 0) and (1.5, 0): depth 0.5, normal (1, 0), one
\* contact at (1, 0)
C10_UnitCirclesOneAndAHalfApart ==
  /\ probe.op = "detect_collision"
  /\ BothCircles
  /\ ProbedA.shape.r = SCALE
  /\ ProbedB.shape.r = SCALE
  /\ ProbedB.transform.location = Vec((3 * SCALE) \div 2, 0)
  /\ probe.ab.some
  /\ probe.ab.val.depth = SCALE \div 2
  /\ probe.ab.val.normal = NORMAL_RIGHT
  /\ probe.ab.val.contact_count = 1
  /\ probe.ab.val.contacts[1].location = Vec(SCALE, 0)
  /\ probe.ba.val.normal = NORMAL_LEFT

\* the manifolds the probe of detect_collision got, for (a, b) and for (b, a)
ProbedManifolds ==
  IF probe.op # "detect_collision" THEN {}
  ELSE {r.val : r \in {x \in {probe.ab, probe.ba} : x.some}}

\* the offset from the body stored as m.a_idx to the body stored as m.b_idx
StoredOffset(m) ==
  VSub(BodyAt(bodies, m.b_idx).transform.location,
       BodyAt(bodies, m.a_idx).transform.location)

\* the normal has length 1, to the rounding of the grid
IsUnit(normal) == Abs(len_squared(normal) - SCALE) <= 4 * THRESHHOLD

\* C11: every manifold detect_collision returns has a normal of unit length
\* that points from the body stored as a_idx toward the body stored as b_idx
\* (its product with the offset of the two centres is not negative), in
\* either argument order and also where the dispatch swapped the arguments.
C11_NormalIsUnitFromAToB ==
  \A m \in ProbedManifolds :
    /\ IsUnit(m.normal)
    /\ {m.a_idx, m.b_idx} = {0, 1}
    /\ dot(m.normal, StoredOffset(m)) >= 0

\* the contact locations a manifold reports
ContactSet(m) == {m.contacts[i].location : i \in 1..m.contact_count}

\* n mirrors m: the same depth and contacts, and either the two indices
\* swapped and the normal negated, or indices and normal kept
Mirrors(m, n) ==
  /\ n.depth = m.depth
  /\ n.contact_count = m.contact_count
  /\ ContactSet(n) = ContactSet(m)
  /\ \/ n.a_idx = m.b_idx /\ n.b_idx = m.a_idx /\ n.normal = VNeg(m.normal)
     \/ n.a_idx = m.a_idx /\ n.b_idx = m.b_idx /\ n.normal = m.normal

\* the centre of the circle lies on the boundary of the polygon
CentreOnBoundary(circle, polygon) ==
  /\ circle.shape.kind = "Circle"
  /\ polygon.shape.kind = "Polygon"
  /\ contacts_single(circle.transform.location, polygon) = circle.transform.location

\* a probe in which some routine has a direction of length 0 to normalise
DegenerateProbe ==
  \/ ProbedA.transform.location = ProbedB.transform.location
  \/ CentreOnBoundary(ProbedA, ProbedB)
  \/ CentreOnBoundary(ProbedB, ProbedA)

\* C12: detect_collision is symmetric: apart from the degenerate probes,
\* (b, j, a, i) gives None exactly when (a, i, b, j) does, and otherwise the
\* mirror manifold: the same depth, contact count and contact locations, and
\* the normal negated with the indices swapped, or both kept.
C12_DetectionIsSymmetric ==
  (probe.op = "detect_collision" /\ ~DegenerateProbe) =>
    /\ probe.ba.some = probe.ab.some
    /\ probe.ab.some => Mirrors(probe.ab.val, probe.ba.val)

\* C13: every manifold in the world's map, from the narrow phase that stored
\* what detect_collision returned through setup, the velocity passes and the
\* correction, has one or two contacts, never none.
C13_ManifoldsHaveOneOrTwoContacts ==
  \A k \in DOMAIN manifolds : manifolds[k].contact_count \in {1, 2}

\* the same for the manifolds of the probed pairs, over all pairs of shape kinds
DetectedManifoldsHaveOneOrTwoContacts ==
  \A m \in ProbedManifolds : m.contact_count \in {1, 2}

\* a velocity pass is about to run on a manifold of one contact and on a
\* manifold of two
C13_ResolvingOneAndTwoContacts ==
  /\ pc = "resolve"
  /\ \E k \in DOMAIN manifolds : manifolds[k].contact_count = 1
  /\ \E k \in DOMAIN manifolds : manifolds[k].contact_count = 2

\* the manifold whose resolution is probed
ProbedManifold == manifolds[Probed]

\* by how much the velocity of the body changed along the normal
GainAlongNormal(before, after) ==
  dot(VSub(after.transform.velocity, before.transform.velocity), ProbedManifold.normal)

\* C14: for every contact of a velocity pass the normal impulse jn applied is
\* not negative, so that A gains no velocity along +normal and B none along
\* -normal, and it is exactly 0 when the contact points already separate
\* along the normal.
C14_NormalImpulseNeverPulls ==
  probe.op = "resolve" =>
    /\ probe.jn >= 0
    /\ probe.v_rel_n > 0 => probe.jn = 0
    /\ GainAlongNormal(probe.before[1], probe.mid[1]) <= 0
    /\ GainAlongNormal(probe.before[2], probe.mid[2]) >= 0

\* a contact of separating bodies got no normal impulse
C14_SeparatingContactLeftAlone ==
  /\ probe.op = "resolve"
  /\ probe.v_rel_n > 0
  /\ probe.jn = 0
  /\ probe.mid = probe.before

\* C15: for every contact the friction impulse jt applied along the tangent
\* is at most jn * friction in size, jn the normal impulse just applied and
\* friction the manifold's coefficient; with jn = 0 there is no friction
\* impulse.
C15_FrictionWithinCone ==
  probe.op = "resolve" =>
    /\ Abs(probe.jt) <= Mul(probe.jn, ProbedManifold.friction)
    /\ probe.jn = 0 => probe.jt = 0

\* a friction impulse was cut down to the edge of the cone
C15_FrictionClamped ==
  /\ probe.op = "resolve"
  /\ probe.jn > 0
  /\ probe.jt # 0
  /\ Abs(probe.jt) = Mul(probe.jn, ProbedManifold.friction)

\* mass_a * velocity_a + mass_b * velocity_b
Momentum(pair) ==
  VAdd(VMul(pair[1].transform.velocity, pair[1].mass),
       VMul(pair[2].transform.velocity, pair[2].mass))

BothDynamic == \A i \in 1..2 : bodies[i].body_type = "Dynamic"

\* what the rounding of the grid may add up to: each of the two impulses of
\* a contact rounds each velocity by less than one step of the grid, which
\* the masses scale
MomentumTolerance ==
  2 * pass * (2 + (bodies[1].mass + bodies[2].mass) \div SCALE) * THRESHHOLD

\* the two vectors agree in both coordinates, to that tolerance
Near(u, v, tolerance) == Abs(u.x - v.x) <= tolerance /\ Abs(u.y - v.y) <= tolerance

\* C16: for two Dynamic bodies resolve_collision conserves the linear
\* momentum mass_a * velocity_a + mass_b * velocity_b, after every contact of
\* every velocity pass.
C16_MomentumConserved ==
  (probe.op = "resolve" /\ BothDynamic) =>
    Near(Momentum(bodies), Momentum(probe.start), MomentumTolerance)

\* both velocities were changed by the impulses of a second pass
C16_ImpulsesExchanged ==
  /\ probe.op = "resolve"
  /\ BothDynamic
  /\ pass > ProbedManifold.contact_count
  /\ probe.jn > 1000 * THRESHHOLD
  /\ \A i \in 1..2 : bodies[i].transform.velocity # probe.start[i].transform.velocity

\* the bodies a and b of the probed manifold, before and after the correction
CorrectedFrom(idx) == BodyAt(probe.before, idx)

CorrectedTo(idx) == BodyAt(bodies, idx)

\* how far the body at idx was moved
Moved(idx) ==
  VSub(CorrectedTo(idx).transform.location, CorrectedFrom(idx).transform.location)

\* c = max(depth - 0.005, 0) / (inverse_mass_a + inverse_mass_b) * 0.6
CorrectionSize(m) ==
  Mul(Div(FMax(m.depth - ALLOWED_INTERSECTION, 0),
          CorrectedFrom(m.a_idx).inverse_mass + CorrectedFrom(m.b_idx).inverse_mass),
      CORRECTION_FACTOR)

\* by how much the pair was separated along the normal
Separation(m) == dot(VSub(Moved(m.b_idx), Moved(m.a_idx)), m.normal)

\* A moved by -c * inverse_mass_a * normal and B by +c * inverse_mass_b *
\* normal, the pair separated by 0.6 * max(depth - 0.005, 0) to the rounding
\* of the grid, nothing moved at a depth within 0.005, no velocity changed
SplitByInverseMass(m) ==
  /\ Moved(m.a_idx)
       = VNeg(VMul(VMul(m.normal, CorrectionSize(m)), CorrectedFrom(m.a_idx).inverse_mass))
  /\ Moved(m.b_idx)
       = VMul(VMul(m.normal, CorrectionSize(m)), CorrectedFrom(m.b_idx).inverse_mass)
  /\ Abs(Separation(m) - Mul(CORRECTION_FACTOR, FMax(m.depth - ALLOWED_INTERSECTION, 0)))
       <= 8 * THRESHHOLD
  /\ m.depth <= ALLOWED_INTERSECTION => bodies = probe.before
  /\ \A i \in 1..2 :
       /\ bodies[i].transform.velocity = probe.before[i].transform.velocity
       /\ bodies[i].transform.angular_velocity = probe.before[i].transform.angular_velocity

\* C17: correct_position moves A by -c * inverse_mass_a * normal and B by
\* +c * inverse_mass_b * normal, c = max(depth - 0.005, 0) / (inverse_mass_a +
\* inverse_mass_b) * 0.6, separating the pair by 0.6 * max(depth - 0.005, 0);
\* nothing moves at a depth within 0.005, a Static body does not move and
\* no velocity changes.
C17_CorrectionSplitsByInverseMass ==
  probe.op = "correct_position" =>
    /\ SplitByInverseMass(ProbedManifold)
    /\ \A i \in 1..2 : IsStatic(bodies[i]) => bodies[i] = probe.before[i]

\* The same without the clause on the Static bodies: this holds, a Static
\* body of inverse mass 0 included.
CorrectionSplitsByInverseMass ==
  probe.op = "correct_position" =>
    /\ SplitByInverseMass(ProbedManifold)
    /\ \A i \in 1..2 :
         (IsStatic(bodies[i]) /\ bodies[i].inverse_mass = 0) => bodies[i] = probe.before[i]

\* from the probed body to the probed attractor
TowardAttractor == VSub(attractors[1].location, bodies[1].transform.location)

\* the attractor reaches the body, which is not at its very place
InReach ==
  /\ TowardAttractor # ZERO
  /\ attractors[1].a_type = "Local"
       => len_squared(TowardAttractor) <= Mul(attractors[1].r, attractors[1].r)

\* G * mass_attractor * mass_body / clamp(d2, lo, hi)
Strength(lo, hi) ==
  Div(Mul(Mul(G, attractors[1].mass), bodies[1].mass),
      FClamp(len_squared(TowardAttractor), lo, hi))

\* the pull has that size, to a thousandth, and points at the attractor
PullsBy(pull, size) ==
  /\ Abs(len(pull) - size) <= 1 + size \div 1000
  /\ dot(pull, TowardAttractor) >= 0
  /\ Abs(crossed(pull, TowardAttractor)) <= 1 + Mul(size, len(TowardAttractor)) \div 1000

\* C18: where the attractor reaches the body the pull of get_attraction has
\* the size G * mass_attractor * mass_body / clamp(d^2, d_min^2, d_max^2) and
\* points from the body toward the attractor.
C18_PullIsInverseSquareClamped ==
  (probe.op = "get_attraction" /\ InReach) =>
    PullsBy(probe.pull, Strength(Mul(attractors[1].d_min, attractors[1].d_min),
                                 Mul(attractors[1].d_max, attractors[1].d_max)))

\* What the program computes: d^2 clamped between d_min and d_max themselves,
\* not their squares. This holds.
PullClampsBetweenDistances ==
  (probe.op = "get_attraction" /\ InReach) =>
    PullsBy(probe.pull, Strength(attractors[1].d_min, attractors[1].d_max))

\* what remove_body(body_idx) has to do to the bodies and return
RemovesAt(body_idx) ==
  IF body_idx >= Len(bodies)
  THEN /\ probe'.returned = None
       /\ UNCHANGED world
  ELSE /\ probe'.returned = Some(bodies[body_idx + 1])
       /\ Len(bodies') = Len(bodies) - 1
       /\ \A k \in 1..Len(bodies') :
            bodies'[k] = IF k <= body_idx THEN bodies[k] ELSE bodies[k + 1]
       /\ UNCHANGED <<forces, attractors, manifolds, possible_collisions,
                      collision_points, tick_rate, delta_time, collision_precision>>

\* C19: remove_body(i) with i out of range returns None and leaves the
\* bodies and every other field of the world as they are; with i in range it
\* returns the body at i and the bodies after it move down by one, the order
\* kept.
C19_RemoveBodyShiftsLaterBodies ==
  [][\A body_idx \in 0..(MaxBodies + 1) : remove_body(body_idx) => RemovesAt(body_idx)]_vars

\* a body was removed from before others, which are still there
C19_RemovedFromTheFront ==
  /\ probe.op = "remove_body"
  /\ probe.returned.some
  /\ probe.body_idx < Len(bodies)
  /\ Len(bodies) >= 2

Massless(body) ==
  /\ body.mass = 0
  /\ body.inverse_mass = 0
  /\ body.inertia = 0
  /\ body.inverse_inertia = 0

\* C20: in every reachable state every Static body has mass, inverse mass,
\* inertia and inverse inertia 0, whatever constructor made it and whatever
\* was called on it since (set_mass included) and however often the world
\* was updated.
C20_StaticBodiesAreMassless ==
  \A i \in 1..Len(bodies) : IsStatic(bodies[i]) => Massless(bodies[i])

\* The same for the Static bodies set_mass was never called on: this holds.
ConstructedStaticBodiesAreMassless ==
  \A i \in 1..Len(bodies) :
     (IsStatic(bodies[i]) /\ bodies[i].name # "anvil") => Massless(bodies[i])

\* the vertices lie on one side of the line through the edge at i, or on it
OnOneSide(verts, i) ==
  LET a == verts[i]
      b == verts[Nxt(i, Len(verts))]
      sides == {ICross(VSub(b, a), VSub(verts[k], a)) : k \in 1..Len(verts)}
  IN (\A s \in sides : s >= 0) \/ (\A s \in sides : s <= 0)

\* the vertex list bounds a convex region: no vertex lies beyond any edge
ConvexOutline(verts) == \A i \in 1..Len(verts) : OnOneSide(verts, i)

Constructed == probe.op = "constructor"

OfPolygon == probe.args.constructor \in {"polygon", "platform_polygon"}

\* C21: a body a constructor returns has 1 to 8 vertices, and Body::polygon
\* and Body::platform_polygon return one only for a convex vertex list: for
\* a list that is not convex they return None.
C21_ConstructedBodiesAreConvexAndSmall ==
  Constructed =>
    /\ probe.returned.some => probe.returned.val.vertice_count \in 1..MAX_VERTICE_COUNT
    /\ (OfPolygon /\ ~ConvexOutline(probe.args.vertices)) => probe.returned = None

\* The same for the lists of 1 to 8 vertices whose edges do not cross: this
\* holds.
Crossing == probe.args.vertices[1] = Vec(0, 3) /\ probe.args.vertices[2] = Vec(2, -2)

SimpleOutlinesAreConvexAndSmall ==
  (Constructed /\ Len(probe.args.vertices) > 0
     /\ ~(Len(probe.args.vertices) = 5 /\ Crossing))
    => /\ probe.returned.some => probe.returned.val.vertice_count \in 1..MAX_VERTICE_COUNT
       /\ (OfPolygon /\ ~ConvexOutline(probe.args.vertices)) => probe.returned = None

\* Not so for the empty list, which makes a body without vertices: this is
\* violated.
NoBodyWithoutVertices ==
  ~(Constructed /\ probe.returned.some /\ probe.returned.val.vertice_count = 0)

\* Nor for the star, whose turns all have one sign although its edges
\* cross: this is violated.
StarIsRejected ==
  (Constructed /\ OfPolygon /\ Len(probe.args.vertices) = 5 /\ Crossing)
    => probe.returned = None

\* detection has run again on the bodies of the first run
DetectedAgain == pc = "detect" /\ pass >= 2 /\ probe.op = "detection"

RECURSIVE ResolvedTimes(_, _, _, _)
ResolvedTimes(ms, o, bs, k) ==
  IF k = 0 THEN bs
  ELSE ResolvedTimes(ms, o, resolve_collisions(ms, o, 1, bs), k - 1)

\* the bodies after the velocity passes and the correction
SettledFrom(ms, o, bs) ==
  correct_positions(ms, o, 1, ResolvedTimes(ms, o, bs, collision_precision))

\* the bodies at the return of update(), from the forces on, the manifolds
\* visited in the order o
OutcomeFrom(o, forced) ==
  Integrate(SettledFrom(setup_resolutions(manifolds, forced, forces, delta_time),
                        o, forced),
            delta_time)

Outcome(o) == OutcomeFrom(o, ApplyForces(bodies, forces, attractors, delta_time))

Motion(bs) ==
  [i \in 1..Len(bs) |-> <<bs[i].transform.location, bs[i].transform.velocity>>]

\* a manifold of two bodies at one location, whose normal may be random
Coincident ==
  \E k \in DOMAIN manifolds :
     BodyAt(bodies, k[1]).transform.location = BodyAt(bodies, k[2]).transform.location

\* detection done, the rest of update() ahead, of at most ten velocity
\* passes
Detected == pc = "forces" /\ DOMAIN manifolds # {} /\ collision_precision <= 10

\* C23: whatever the order in which setup, the velocity passes and the
\* correction visit the manifolds of a tick, the locations and velocities
\* of the bodies after update() are the same (no random normal drawn).
C23_OutcomeIndependentOfOrder ==
  (Detected /\ ~Coincident)
    => \A o1, o2 \in Orders(DOMAIN manifolds) : Motion(Outcome(o1)) = Motion(Outcome(o2))

\* the contact locations of the manifolds of those keys, one after another
RECURSIVE PointsOf(_, _, _)
PointsOf(ms, keys, i) ==
  IF i > Len(keys) THEN <<>>
  ELSE ContactLocations(ms[keys[i]]) \o PointsOf(ms, keys, i + 1)

\* the narrow phase of an update() has run to its end
NarrowStep == pc = "narrow" /\ pc' = "forces"

\* a later step of update(), up to its return
LaterStep == pc \in {"forces", "setup", "resolve", "correct", "integrate"}

\* C24: after the detection of a tick collision_points holds the contact
\* locations of the manifolds of that tick, contact_count of each, and
\* nothing else (nothing when there is no manifold), and the rest of
\* update() leaves the list as it is.
C24_CollisionPointsOfThisTick ==
  [][/\ NarrowStep =>
          collision_points' = PointsOf(manifolds', Ascending(DOMAIN manifolds'), 1)
     /\ LaterStep => collision_points' = collision_points]_vars

\* a second update() has returned with the three contact locations of its
\* two manifolds
C24_PointsOfTheSecondTick ==
  /\ pc = "idle"
  /\ ticks = 2
  /\ Len(collision_points) = 3
  /\ Cardinality(DOMAIN stats) = 2

\* the point c lies on the segment from p to q
OnSegment(c, p, q) ==
  /\ ICross(VSub(q, p), VSub(c, p)) = 0
  /\ IDot(VSub(c, p), VSub(q, p)) >= 0
  /\ IDot(VSub(c, q), VSub(p, q)) >= 0

\* the point c lies outside the convex polygon P, not on its boundary
StrictlyOutside(c, P) ==
  /\ ~StrictlyInside(c, P)
  /\ ~\E i \in 1..Len(P) : OnSegment(c, P[i], P[Nxt(i, Len(P))])

\* the boundary of P comes nearer than r to c
BoundaryNearer(c, r, P) ==
  \E i \in 1..Len(P) : NearSegment(c, r, P[i], P[Nxt(i, Len(P))])

\* the point c is at the distance r from the segment from p to q
AtSegment(c, r, p, q) ==
  IF IDot(VSub(c, p), VSub(q, p)) <= 0 THEN IDot(VSub(c, p), VSub(c, p)) = r * r
  ELSE IF IDot(VSub(c, q), VSub(p, q)) <= 0 THEN IDot(VSub(c, q), VSub(c, q)) = r * r
  ELSE ICross(VSub(q, p), VSub(c, p)) * ICross(VSub(q, p), VSub(c, p))
         = r * r * IDot(VSub(q, p), VSub(q, p))

\* the boundary of P comes as near as r to c at some edge
BoundaryAt(c, r, P) ==
  \E i \in 1..Len(P) : AtSegment(c, r, P[i], P[Nxt(i, Len(P))])

\* detect_collision probed on a circle and a polygon, in this order, the
\* centre of the circle outside the polygon
CircleOutsidePolygon ==
  /\ probe.op = "detect_collision"
  /\ ProbedA.shape.kind = "Circle"
  /\ ProbedB.shape.kind = "Polygon"
  /\ StrictlyOutside(FineCentre(ProbedA), FineVertices(ProbedB))

\* C25: for a circle whose centre is outside the polygon, at distance D from
\* its boundary, a manifold is returned exactly when D * D < r * r, none when
\* the circle only touches (D = r), and the depth of a returned manifold is
\* r - D > 0.
C25_CirclePolygonStrictlyNearer ==
  CircleOutsidePolygon =>
    /\ probe.ab.some = BoundaryNearer(FineCentre(ProbedA), FineRadius(ProbedA),
                                      FineVertices(ProbedB))
    /\ probe.ab.some => probe.ab.val.depth > 0

\* The same for the circles that do not just touch the polygon: this holds.
Touching ==
  /\ ~BoundaryNearer(FineCentre(ProbedA), FineRadius(ProbedA), FineVertices(ProbedB))
  /\ BoundaryAt(FineCentre(ProbedA), FineRadius(ProbedA), FineVertices(ProbedB))

CirclePolygonApartFromTouching ==
  (CircleOutsidePolygon /\ ~Touching) =>
    /\ probe.ab.some = BoundaryNearer(FineCentre(ProbedA), FineRadius(ProbedA),
                                      FineVertices(ProbedB))
    /\ probe.ab.some => probe.ab.val.depth > 0

\* a projection of the vertex p, with its squared distance from p
Projected(p, contact_candidate) ==
  [location |-> contact_candidate, d2 |-> distance_squared(p, contact_candidate)]

\* the projections of the vertices ps on the edges es
Projections(ps, es) ==
  {Projected(ps[i], project_onto_line(es[j], es[Nxt(j, Len(es))], ps[i])) :
     i \in 1..Len(ps), j \in 1..Len(es)}

\* the candidates of both passes of contacts_double
AllProjections(a, b) ==
  Projections(get_moved_vertices(a), get_moved_vertices(b))
    \cup Projections(get_moved_vertices(b), get_moved_vertices(a))

\* the contacts of m are a projection of least squared distance (to the
\* tolerance of similar) and, if there is a second, a projection as near as
\* the least one and elsewhere than the first
LeastContacts(m, candidates, least) ==
  /\ \E c \in candidates :
        c.location = m.contacts[1].location /\ similar(c.d2, least)
  /\ m.contact_count = 2 =>
       /\ \E c \in candidates :
             c.location = m.contacts[2].location /\ similar(c.d2, least)
       /\ ~similar_vector2(m.contacts[2].location, m.contacts[1].location)

LeastContactsOf(m, candidates) ==
  LeastContacts(m, candidates, Least2({c.d2 : c \in candidates}))

\* detect_collision probed on two boxes or polygons that it found colliding
PolygonsProbed ==
  /\ probe.op = "detect_collision"
  /\ ProbedA.shape.kind # "Circle"
  /\ ProbedB.shape.kind # "Circle"
  /\ probe.ab.some

\* C26: for colliding boxes and polygons contact 1 is a vertex-to-edge
\* projection of least squared distance over both passes, and contact 2 is
\* reported only if it is a projection within 1e-4 of that least distance
\* and differs from contact 1: a second contact recorded before a smaller
\* minimum was found is not reported.
C26_ContactsOfLeastDistance ==
  PolygonsProbed => LeastContactsOf(probe.ab.val, AllProjections(ProbedA, ProbedB))

\* The same for two rectangles with parallel sides: this holds.
RectanglesProbed == ProbedA.name # "wedge" /\ ProbedB.name # "wedge"

ContactsOfLeastDistanceOfRectangles ==
  (PolygonsProbed /\ RectanglesProbed)
    => LeastContactsOf(probe.ab.val, AllProjections(ProbedA, ProbedB))

\* C27: every manifold update() holds, and so every manifold handed to
\* setup, resolve_collision and correct_position, has two distinct body
\* indices within the bodies, the two of its key in either order, so that
\* collision_bodies finds both bodies and does not abort.
C27_ManifoldIndicesValid ==
  \A k \in DOMAIN manifolds :
     /\ collision_bodies_ok(manifolds[k].a_idx, manifolds[k].b_idx, bodies)
     /\ {manifolds[k].a_idx, manifolds[k].b_idx} = {k[1], k[2]}

\* velocity resolution under way on two manifolds, one of which has its
\* indices in the order opposite to its key
C27_ResolvingSwappedManifold ==
  /\ pc = "resolve"
  /\ Cardinality(DOMAIN manifolds) = 2
  /\ \E k \in DOMAIN manifolds : manifolds[k].a_idx = k[2] /\ manifolds[k].b_idx = k[1]

\* C28: whenever update() is not running (after World::new, after every
\* update(), after clear(), after a body was added or removed) the list
\* possible_collisions is empty, so the broad phase starts from an empty
\* list and the narrow phase sees no pair of an earlier tick.
C28_NoCandidatesBetweenUpdates == pc = "idle" => possible_collisions = <<>>

\* an update() that found collisions has returned and a body was removed
\* since
C28_RemovedAfterCollisions ==
  /\ pc = "idle"
  /\ ticks >= 1
  /\ DOMAIN stats # {}
  /\ probe.op = "remove_body"
  /\ probe.returned.some

\* the sum of the inverse masses of the two bodies of m
InverseMasses(m) ==
  BodyAt(bodies, m.a_idx).inverse_mass + BodyAt(bodies, m.b_idx).inverse_mass

\* C29: for every manifold the narrow phase stores, and so for every
\* manifold that reaches setup, resolve_collision and correct_position, the
\* inverse masses of its two bodies add up to more than 0.
C29_InverseMassesPositive ==
  \A k \in DOMAIN manifolds : InverseMasses(manifolds[k]) > 0

\* The same for the bodies as their constructors made them: this holds.
AsConstructed(m) ==
  BodyAt(bodies, m.a_idx).name # "boulder" /\ BodyAt(bodies, m.b_idx).name # "boulder"

InverseMassesOfConstructedPositive ==
  \A k \in DOMAIN manifolds :
     AsConstructed(manifolds[k]) => InverseMasses(manifolds[k]) > 0

IsDynamicBox(body) == body.body_type = "Dynamic" /\ body.shape.kind = "AABB"

\* the body but for its location and its linear velocity
ButForMotion(body) ==
  [body EXCEPT !.transform.location = ZERO, !.transform.velocity = ZERO]

\* C30: a Dynamic axis-aligned box has inertia and inverse inertia 0, and
\* no step of update() changes its angular velocity, its cached vertices or
\* its hitbox: only its location and its linear velocity change.
C30_DynamicBoxesNeverTurn ==
  [][\A i \in 1..Len(bodies) :
       IsDynamicBox(bodies[i]) =>
         /\ bodies[i].inertia = 0
         /\ bodies[i].inverse_inertia = 0
         /\ UpdateStep => ButForMotion(bodies'[i]) = ButForMotion(bodies[i])]_vars

\* an update() has returned in which a spinning Dynamic box collided and
\* was set moving
C30_SpinningBoxCollided ==
  /\ pc = "idle"
  /\ ticks >= 1
  /\ \E i \in 1..Len(bodies) :
       /\ IsDynamicBox(bodies[i])
       /\ bodies[i].transform.angular_velocity # 0
       /\ bodies[i].transform.velocity # ZERO
       /\ \E k \in DOMAIN stats : i - 1 \in {k[1], k[2]}

=============================================================================
